---- MODULE Spec2Model ----
(***************************************************************************)
(* Model of the v2 querier of the query service (src/unnamed/part_000):    *)
(* the cache-aware time-range reconciliation (findMissingTimeRanges), the  *)
(* series merge (mergeSerieses) and the concurrent orchestrator            *)
(* (QueryRange and its four executors); and of the resource filters of    *)
(* the logs query builder (src/unnamed/part_001).                          *)
(*                                                                         *)
(* Timestamps are int64 milliseconds.  Every value used here is far below  *)
(* 2^53, so the float64 round trips of math.Min are exact and no int64     *)
(* arithmetic wraps.                                                       *)
(***************************************************************************)
EXTENDS Integers, Sequences, FiniteSets, TLC

VARIABLES
    params,          \* the QueryRangeParamsV3 of the call in progress
    pc,              \* position of the QueryRange call
    prepared,        \* how builder.PrepareQueries ended in this call
    unit,            \* per sub-query name: the state of its goroutine
    channelResults,  \* the buffered channel of channelResult
    sent,            \* per sub-query: what its goroutine wrote to the channel
    cache,           \* the cache collaborator: key -> payload
    now,             \* time.Now().UnixMilli()
    querier,         \* the querier's own fields: fluxInterval (ms), cache set or nil,
                     \* how its reader answers, and the fields used for testing
    ret,             \* what QueryRange returned: results, errQueriesByName, err
    queriesExecuted, \* per sub-query: the backend calls of this call, in order
    cacheCalls,      \* Retrieve / Store calls of this call
    calls,           \* number of QueryRange calls started
    rcIn,            \* inputs of a direct findMissingTimeRanges call
    rcOut,           \* its outputs
    mgIn,            \* inputs of a direct mergeSerieses call
    mgOut,           \* its outputs
    lbIn,            \* two label maps given to labelsToString
    lbOut,           \* their signatures
    fsIn,            \* the filter set given to buildResourceFiltersFromFilterItems
    fsOut,           \* its conditions and error
    fcIn,            \* inputs of a direct filterCachedPoints call
    fcOut            \* the series list as the call leaves it

vars == <<params, pc, prepared, unit, channelResults, sent, cache, now, querier, ret,
          queriesExecuted, cacheCalls, calls, rcIn, rcOut, mgIn, mgOut, lbIn, lbOut,
          fsIn, fsOut, fcIn, fcOut>>

orchVars == <<params, pc, prepared, unit, channelResults, sent, cache, now, querier, ret,
              queriesExecuted, cacheCalls, calls>>

\* The variables of the direct calls of the pure functions.
rcVars == <<rcIn, rcOut, mgIn, mgOut, lbIn, lbOut, fsIn, fsOut, fcIn, fcOut>>

\* A nil error.
NoErr == [kind |-> "nil", formatted |-> FALSE]

\* Nil bytes: what the goroutine holds when nothing was retrieved.
NilBytes == [kind |-> "nil", json |-> << >>]

\* A nil map[string]error, and a map that was made.  A nil slice is << >>:
\* only its length is ever read.
NilMap == [isNil |-> TRUE, byName |-> << >>]

ErrMap(byName) == [isNil |-> FALSE, byName |-> byName]

Min2(a, b) == IF a <= b THEN a ELSE b

Range(s) == {s[i] : i \in 1..Len(s)}

\* F(x), with x evaluated once, before F is.
Apply(F(_), x) == CHOOSE out \in {F(v) : v \in {x}} : TRUE

(***************************************************************************)
(* Data model                                                              *)
(***************************************************************************)

\* v3.Point
Point(ts, v) == [Timestamp |-> ts, Value |-> v]

\* v3.Series: Labels is a map[string]string, a string being a sequence of
\* byte values; Points is a slice of v3.Point.
Series(labels, points) == [Labels |-> labels, Points |-> points]

\* missInterval
missInterval(s, e) == [start |-> s, end |-> e]

(***************************************************************************)
(* findMissingTimeRanges                                                   *)
(***************************************************************************)

\* The scan of lines 163-174 over the points of one series, from index i,
\* carrying (cachedStart, cachedEnd); 0 doubles as "not set yet".
RECURSIVE scanPoints(_, _, _)
scanPoints(points, i, acc) ==
    IF i > Len(points) THEN acc
    ELSE LET ts == points[i].Timestamp
             cs == IF acc.cachedStart = 0 \/ ts < acc.cachedStart
                   THEN ts ELSE acc.cachedStart
             ce == IF acc.cachedEnd = 0 \/ ts > acc.cachedEnd
                   THEN ts ELSE acc.cachedEnd
         IN scanPoints(points, i + 1, [cachedStart |-> cs, cachedEnd |-> ce])

\* The outer loop of lines 163-174 over the series list, from index i.
RECURSIVE scanSeries(_, _, _)
scanSeries(seriesList, i, acc) ==
    IF i > Len(seriesList) THEN acc
    ELSE scanSeries(seriesList, i + 1, scanPoints(seriesList[i].Points, 1, acc))

\* cachedStart and cachedEnd before the flux cap (lines 162-174).
cachedRange(seriesList) ==
    scanSeries(seriesList, 1, [cachedStart |-> 0, cachedEnd |-> 0])

\* adjustStep: int64(math.Min(float64(step), 60)) (line 179).
adjustStep(step) == Min2(step, 60)

\* roundedMillis (line 180) for a positive step; endMillis >= 0.
roundedMillis(endMillis, step) ==
    endMillis - (endMillis % (adjustStep(step) * 1000))

\* cachedEnd after the flux interval is excluded (lines 183-188).
cappedCachedEnd(cachedEnd, endMillis, step, fluxMs) ==
    Min2(cachedEnd, roundedMillis(endMillis, step) - fluxMs)

\* The five cases of lines 196-217: the misses before validation, and
\* replaceCacheData.
classify(start, end, cachedStart, cachedEnd) ==
    IF cachedStart >= start /\ cachedEnd <= end
    THEN [misses |-> << missInterval(start, cachedStart - 1),
                        missInterval(cachedEnd + 1, end) >>,
          replaceCacheData |-> FALSE, case |-> "subset"]
    ELSE IF cachedStart <= start /\ cachedEnd >= end
    THEN [misses |-> << >>, replaceCacheData |-> FALSE, case |-> "superset"]
    ELSE IF cachedStart <= start /\ cachedEnd >= start
    THEN [misses |-> << missInterval(cachedEnd + 1, end) >>,
          replaceCacheData |-> FALSE, case |-> "left"]
    ELSE IF cachedStart <= end /\ cachedEnd >= end
    THEN [misses |-> << missInterval(start, cachedStart - 1) >>,
          replaceCacheData |-> FALSE, case |-> "right"]
    ELSE [misses |-> << missInterval(start, end) >>,
          replaceCacheData |-> TRUE, case |-> "disjoint"]

\* A test that also keeps the misses of a single millisecond.
validMissInclusive(miss) == miss.start <= miss.end

\* Line 223: the test a miss must pass to be kept.
validMiss(miss) == miss.start < miss.end

\* Lines 219-226: the misses that pass validMiss, in order.
validMisses(misses) == SelectSeq(misses, validMiss)

\* findMissingTimeRanges(start, end, step, seriesList, fluxInterval), with
\* time.Now() passed as endMillis and fluxInterval in milliseconds.
findMissingTimeRanges(start, end, step, seriesList, fluxMs, endMillis) ==
    LET r  == cachedRange(seriesList)
        ce == cappedCachedEnd(r.cachedEnd, endMillis, step, fluxMs)
        c  == classify(start, end, r.cachedStart, ce)
    IN [misses |-> validMisses(c.misses),
        replaceCacheData |-> c.replaceCacheData]

(***************************************************************************)
(* labelsToString and mergeSerieses                                        *)
(***************************************************************************)

\* Go's < on strings: bytewise lexicographic order (line 254).
RECURSIVE strLess(_, _)
strLess(a, b) ==
    IF Len(b) = 0 THEN FALSE
    ELSE IF Len(a) = 0 THEN TRUE
    ELSE IF a[1] # b[1] THEN a[1] < b[1]
    ELSE strLess(Tail(a), Tail(b))

\* Lines 249-255: the keys of the map sorted by key.
RECURSIVE sortedKeys(_)
sortedKeys(keys) ==
    IF keys = {} THEN << >>
    ELSE LET k == CHOOSE x \in keys : \A y \in keys \ {x} : strLess(x, y)
         IN << k >> \o sortedKeys(keys \ {k})

\* strings.Join(labelKVs, ",") over Key + "=" + Value (lines 256-260);
\* 61 is '=', 44 is ','.
RECURSIVE joinKVs(_, _)
joinKVs(labels, keys) ==
    IF Len(keys) = 0 THEN << >>
    ELSE (keys[1] \o << 61 >> \o labels[keys[1]])
         \o (IF Len(keys) > 1 THEN << 44 >> ELSE << >>)
         \o joinKVs(labels, Tail(keys))

\* labelsToString(labels): "{k1=v1,k2=v2}"; 123 is '{', 125 is '}'.
labelsToString(labels) ==
    << 123 >> \o joinKVs(labels, sortedKeys(DOMAIN labels)) \o << 125 >>

\* Series.SortPoints: ascending by timestamp.  sort.Slice sorts slices of at
\* most 12 elements by insertion, which keeps equal timestamps in order.
RECURSIVE SortPoints(_)
SortPoints(points) ==
    IF Len(points) <= 1 THEN points
    ELSE LET p == Head(points)
             insert(rest) ==
                 LET k == Cardinality({i \in 1..Len(rest) :
                                         rest[i].Timestamp < p.Timestamp})
                 IN SubSeq(rest, 1, k) \o << p >> \o SubSeq(rest, k + 1, Len(rest))
         IN Apply(insert, SortPoints(Tail(points)))

\* Series.RemoveDuplicatePoints: adjacent points with equal timestamp
\* collapse to one.
RECURSIVE RemoveDuplicatePoints(_)
RemoveDuplicatePoints(points) ==
    IF Len(points) <= 1 THEN points
    ELSE IF points[1].Timestamp = points[2].Timestamp
    THEN Apply(RemoveDuplicatePoints, << points[1] >> \o SubSeq(points, 3, Len(points)))
    ELSE << points[1] >> \o RemoveDuplicatePoints(Tail(points))

\* seriesesByLabels[sig] = ref: a map assignment.
mapPut(m, sig, ref) ==
    [s \in (DOMAIN m) \cup {sig} |-> IF s = sig THEN ref ELSE m[s]]

\* Lines 286-289, from index i.  The series are *v3.Series: the objects of
\* cachedSeries are numbered 1..n and those of missedSeries n+1..n+m, and
\* seriesesByLabels maps a signature to the number of an object.
RECURSIVE mergeSeed(_, _, _)
mergeSeed(cachedSeries, i, byLabels) ==
    IF i > Len(cachedSeries) THEN byLabels
    ELSE Apply(LAMBDA m : mergeSeed(cachedSeries, i + 1, m),
               mapPut(byLabels, labelsToString(cachedSeries[i].Labels), i))

\* Lines 291-298, from index j: st.heap holds the objects, st.byLabels the
\* map.  A new signature inserts the missed object itself; a known one
\* appends the missed points to the object the map holds.
RECURSIVE mergeMissed(_, _, _)
mergeMissed(n, j, st) ==
    IF n + j > Len(st.heap) THEN st
    ELSE LET series == st.heap[n + j]
             sig    == labelsToString(series.Labels)
         IN IF sig \notin DOMAIN st.byLabels
            THEN Apply(LAMBDA next : mergeMissed(n, j + 1, next),
                       [st EXCEPT !.byLabels = mapPut(@, sig, n + j)])
            ELSE LET ref == st.byLabels[sig]
                 IN Apply(LAMBDA next : mergeMissed(n, j + 1, next),
                          [st EXCEPT !.heap[ref].Points = @ \o series.Points])

\* The numbers in set refs in ascending order.
RECURSIVE ascending(_)
ascending(refs) ==
    IF refs = {} THEN << >>
    ELSE LET r == CHOOSE x \in refs : \A y \in refs : x <= y
         IN << r >> \o ascending(refs \ {r})

\* mergeSerieses(cachedSeries, missedSeries): the merged list, and the
\* input objects as the call leaves them (lines 302-307 sort and
\* de-duplicate the objects of the map in place).  Go ranges over the map in
\* an unspecified order; mergedSeries lists the objects by number.
mergeSerieses(cachedSeries, missedSeries) ==
    LET n == Len(cachedSeries)
        sorted(st) ==
            LET refs == {st.byLabels[sig] : sig \in DOMAIN st.byLabels}
            IN [refs |-> refs,
                heap |-> [r \in 1..Len(st.heap) |->
                            IF r \in refs
                            THEN [st.heap[r] EXCEPT
                                    !.Points = Apply(RemoveDuplicatePoints,
                                                     SortPoints(@))]
                            ELSE st.heap[r]]]
        lists(s) ==
            LET order == ascending(s.refs)
            IN [mergedSeries |-> [k \in 1..Len(order) |-> s.heap[order[k]]],
                cachedSeries |-> SubSeq(s.heap, 1, n),
                missedSeries |-> SubSeq(s.heap, n + 1, Len(s.heap))]
    IN Apply(lists,
             Apply(sorted,
                   mergeMissed(n, 1,
                       [heap |-> cachedSeries \o missedSeries,
                        byLabels |-> mergeSeed(cachedSeries, 1, << >>)])))

(***************************************************************************)
(* filterCachedPoints                                                      *)
(***************************************************************************)

\* A filter that keeps the points of the window and no other.
keptCachedPointInWindow(point, start, end) ==
    start <= point.Timestamp /\ point.Timestamp <= end

\* Lines 270-273: the points that are not skipped.
keptCachedPoint(point, start, end) ==
    ~((point.Timestamp < start \/ point.Timestamp > end) /\ point.Timestamp # 0)

\* filterCachedPoints(cachedSeries, start, end): the series objects as the
\* call leaves them, each with the points that are not skipped, in order
\* (lines 267-277).
filterCachedPoints(cachedSeries, start, end) ==
    [i \in 1..Len(cachedSeries) |->
        [cachedSeries[i] EXCEPT
            !.Points = SelectSeq(@, LAMBDA point : keptCachedPoint(point, start, end))]]

(***************************************************************************)
(* The cache payload                                                       *)
(***************************************************************************)

\* json.Marshal of a []*v3.Series: the bytes of a JSON array.
Marshal(seriesList) == [kind |-> "json", json |-> seriesList]

\* A payload that is not the JSON of a series list.
Corrupt == [kind |-> "garbage", json |-> << >>]

\* json.Unmarshal(data, &seriesList): nil, empty and corrupt bytes are an
\* error and leave the target as it was; the JSON of a list decodes to it.
Unmarshal(data, target) ==
    IF data.kind = "json"
    THEN [err |-> FALSE, seriesList |-> data.json]
    ELSE [err |-> TRUE, seriesList |-> target]

\* A wrapper that asks for the whole range when the payload does not decode
\* but leaves replaceCachedData unset.
qFindMissingTimeRangesKeepsCache(start, end, step, cachedData, fluxMs, endMillis) ==
    LET u == Unmarshal(cachedData, << >>)
    IN IF u.err
       THEN [misses |-> << missInterval(start, end) >>, replaceCacheData |-> FALSE]
       ELSE findMissingTimeRanges(start, end, step, u.seriesList, fluxMs, endMillis)

\* querier.findMissingTimeRanges (lines 232-239).
qFindMissingTimeRanges(start, end, step, cachedData, fluxMs, endMillis) ==
    LET u == Unmarshal(cachedData, << >>)
    IN IF u.err
       THEN [misses |-> << missInterval(start, end) >>, replaceCacheData |-> TRUE]
       ELSE findMissingTimeRanges(start, end, step, u.seriesList, fluxMs, endMillis)

(***************************************************************************)
(* Requests, collaborators and their bounds                                *)
(***************************************************************************)

\* Timestamps the backends hold data at are 1..MaxT.
MaxT == 5

\* QueryRange calls made one after the other on one querier, in the
\* specification of the cache across calls.
MaxCalls == 3

\* QueryRange calls in the specification of the orchestrator.
OrchCalls == 1

\* Names of the sub-queries of a composite query.
Names == {"A", "B"}

\* Two label sets: {a="x"} and {a="y"} (97 is 'a', 120 'x', 121 'y').
L1 == (<< 97 >> :> << 120 >>)

L2 == (<< 97 >> :> << 121 >>)

\* The value the backend holds at a timestamp: fixed per timestamp.
BackendValue(ts) == ts * 10

\* The points the backend holds in [s, e], ascending.
RECURSIVE BackendPoints(_, _)
BackendPoints(s, e) ==
    IF s > e THEN << >>
    ELSE (IF s \in 1..MaxT THEN << Point(s, BackendValue(s)) >> ELSE << >>)
         \o BackendPoints(s + 1, e)

\* The label sets a PromQL sub-query selects: one series for A, two for B.
PromLabels(name) == IF name = "A" THEN << L1 >> ELSE << L1, L2 >>

\* Line 124: the querier answers from its testing fields.
testing == querier.testingMode /\ querier.reader = "nil"

\* A sequence back to front.
Reverse(q) == [i \in 1..Len(q) |-> q[Len(q) + 1 - i]]

\* The samples of [s, e] in the order the reader hands them over; a reader
\* over a store without samples hands over none.
readerPoints(s, e) ==
    IF querier.reader = "empty" THEN << >>
    ELSE IF querier.reader = "descending" THEN Reverse(BackendPoints(s, e))
    ELSE BackendPoints(s, e)

\* execPromQuery when it answers series.  In testing mode (lines 124-127)
\* they are the querier's returnedSeries whatever the window; otherwise
\* reader.GetQueryRangeResult for [s, e] and Matrix() turned into series
\* (lines 129-147): one series per label set that has samples in the
\* window, its points in the order of the samples.
execPromQuery(name, s, e) ==
    IF testing THEN querier.returnedSeries
    ELSE IF readerPoints(s, e) = << >> THEN << >>
    ELSE [k \in 1..Len(PromLabels(name)) |->
             Series(PromLabels(name)[k], readerPoints(s, e))]

\* metricsV4.BuildPromQuery(promQuery, step, miss.start, miss.end): the
\* range request for one miss.
BuildPromQuery(name, miss) == [Query |-> name, Start |-> miss.start, End |-> miss.end]

\* An entry of queriesExecuted: the request and how the backend answered.
executed(query, err) == [query |-> query, err |-> err]

\* The errors a backend call can end with.
BackendErrors == {"resource_limit", "internal"}

\* An error value: what it is about, and whether it is the *ResourceLimitError
\* itself or a new error formatted from it with %v (line 496).
Error(kind) == [kind |-> kind, formatted |-> FALSE]

\* The errors execPromQuery and execClickHouseQuery can answer: in testing
\* mode the querier's returnedErr and nothing else.
backendFails(err) == IF testing THEN querier.returnedErr = Error(err) ELSE TRUE

backendSucceeds == IF testing THEN querier.returnedErr = NoErr ELSE TRUE

\* fmt.Errorf("error in query-%s: %v", name, err) (line 496).
Errorf(err) == [kind |-> err.kind, formatted |-> TRUE]

\* chErrors.IsResourceLimitError(err).
IsResourceLimitError(err) == err.kind = "resource_limit" /\ ~err.formatted

\* The overall errors QueryRange composes itself.
ErrBuilder == [kind |-> "error in builder queries", formatted |-> TRUE]

ErrProm == [kind |-> "error in prom queries", formatted |-> TRUE]

ErrClickHouse == [kind |-> "error in clickhouse queries", formatted |-> TRUE]

ErrMulti == [kind |-> "encountered multiple errors", formatted |-> TRUE]

ErrInvalidQueryType == [kind |-> "invalid query type", formatted |-> TRUE]

ErrTranslation == [kind |-> "translation", formatted |-> FALSE]

ErrValueQueries ==
    [kind |-> "there can be only one active query for value type panel",
     formatted |-> TRUE]

ErrValueSeries ==
    [kind |-> "there can be only one result series for value type panel",
     formatted |-> TRUE]

\* What reader.GetTimeSeriesResultV3 can answer to a raw SQL query: series
\* with negative, zero and positive timestamps, one or two series.
ClickHouseResponses ==
    { << Series(L1, << Point(0 - 5, 1), Point(10, 2) >>) >>,
      << Series(L1, << Point(0, 3) >>), Series(L2, << Point(7, 4), Point(0 - 1, 5) >>) >> }

\* What a builder sub-query unit (runBuilderQuery) can produce: its series.
BuilderResponses ==
    { << Series(L1, << Point(1, 10) >>) >>,
      << Series(L1, << Point(1, 10) >>), Series(L2, << Point(1, 10) >>) >> }

\* What reader.GetListResultV3 can answer: rows.
ListResponses == { << "row1", "row2" >> }

\* channelResult (lines 27-33).
channelResult(err, name, series, list) ==
    [Err |-> err, Name |-> name, Series |-> series, List |-> list]

\* v3.Result
Result(name, series, list) == [QueryName |-> name, Series |-> series, List |-> list]

\* A goroutine that was never started, or the state of one at a position.
NoUnit == [pc |-> "none"]

\* CompositeQuery.EnabledQueries(): the sub-queries that are not disabled.
EnabledQueries(p) ==
    Cardinality({n \in DOMAIN p.Queries : ~p.Queries[n].Disabled})

(***************************************************************************)
(* The executors' fan-in and QueryRange's post-processing                  *)
(***************************************************************************)

\* A drain loop without its continue: a failed channelResult is also turned
\* into a Result.
RECURSIVE drainNoContinue(_, _, _)
drainNoContinue(ch, i, acc) ==
    IF i > Len(ch) THEN acc
    ELSE drainNoContinue(ch, i + 1,
             [acc EXCEPT
                 !.errs = IF ch[i].Err # NoErr THEN Append(@, ch[i].Err) ELSE @,
                 !.errQueriesByName =
                     IF ch[i].Err # NoErr THEN mapPut(@, ch[i].Name, ch[i].Err) ELSE @,
                 !.results = Append(@, Result(ch[i].Name, ch[i].Series, ch[i].List))])

\* A fan-in that stops reading the channel at the first error it meets.
RECURSIVE drainStopsAtError(_, _, _)
drainStopsAtError(ch, i, acc) ==
    IF i > Len(ch) THEN acc
    ELSE IF ch[i].Err # NoErr
    THEN [acc EXCEPT !.errs = Append(@, ch[i].Err),
                     !.errQueriesByName = mapPut(@, ch[i].Name, ch[i].Err)]
    ELSE drainStopsAtError(ch, i + 1,
               [acc EXCEPT !.results =
                    Append(@, Result(ch[i].Name, ch[i].Series, ch[i].List))])

\* The drain loop of an executor (lines 332-342, 418-428, 459-469, 510-520),
\* from index i of the closed channel.
RECURSIVE drain(_, _, _)
drain(ch, i, acc) ==
    IF i > Len(ch) THEN acc
    ELSE IF ch[i].Err # NoErr
    THEN drain(ch, i + 1,
               [acc EXCEPT !.errs = Append(@, ch[i].Err),
                           !.errQueriesByName = mapPut(@, ch[i].Name, ch[i].Err)])
    ELSE drain(ch, i + 1,
               [acc EXCEPT !.results =
                    Append(@, Result(ch[i].Name, ch[i].Series, ch[i].List))])

\* A fan-in that reads one result from the closed channel and leaves the
\* rest.
drainedFirst(ch) ==
    drain(IF Len(ch) = 0 THEN << >> ELSE << ch[1] >>, 1,
          [results |-> << >>, errQueriesByName |-> << >>, errs |-> << >>])

drained(ch) ==
    drain(ch, 1, [results |-> << >>, errQueriesByName |-> << >>, errs |-> << >>])

\* A fan-in that reports its overall error only when no sub-query produced
\* a result.
seriesReturnAllFailed(ch, overall) ==
    LET d == drained(ch)
    IN [results |-> d.results,
        errQueriesByName |-> ErrMap(d.errQueriesByName),
        err |-> IF Len(d.errs) > 0 /\ Len(d.results) = 0 THEN overall ELSE NoErr]

\* What runBuilderQueries, runPromQueries and runClickHouseQueries return
\* (lines 344-349, 430-435, 471-475): overall is the executor's own error.
seriesReturn(ch, overall) ==
    LET d == drained(ch)
    IN [results |-> d.results,
        errQueriesByName |-> ErrMap(d.errQueriesByName),
        err |-> IF Len(d.errs) > 0 THEN overall ELSE NoErr]

\* A row-oriented fan-in that hands back the results it collected next to
\* the errors.
listReturnPartial(ch) ==
    LET d == drain(ch, 1, [results |-> << >>, errQueriesByName |-> << >>,
                          errs |-> << >>])
    IN [results |-> d.results,
        errQueriesByName |-> ErrMap(d.errQueriesByName),
        err |-> IF Len(d.errs) # 0 THEN ErrMulti ELSE NoErr]

\* What runBuilderListQueries returns after the fan-in (lines 521-524).
listReturn(ch) ==
    LET d == drained(ch)
    IN IF Len(d.errs) # 0
       THEN [results |-> << >>, errQueriesByName |-> ErrMap(d.errQueriesByName),
             err |-> ErrMulti]
       ELSE [results |-> d.results, errQueriesByName |-> NilMap, err |-> NoErr]

\* A translation failure whose error is dropped on the way out.
prepareFailedReturnSwallowed(err) ==
    [results |-> << >>, errQueriesByName |-> NilMap, err |-> NoErr]

\* What runBuilderListQueries returns when PrepareQueries fails (lines 482-484).
prepareFailedReturn(err) ==
    [results |-> << >>, errQueriesByName |-> NilMap, err |-> err]

\* An exposure policy that keeps every entry of the error map.
exposedErrorsAll(errQueriesByName) == errQueriesByName

\* Lines 543-547: the entries of a (possibly nil) error map that stay.
exposedErrors(errQueriesByName) ==
    IF errQueriesByName.isNil THEN NilMap
    ELSE ErrMap([n \in {x \in DOMAIN errQueriesByName.byName :
                           IsResourceLimitError(errQueriesByName.byName[x])}
                    |-> errQueriesByName.byName[n]])

\* A switch whose filter runs after every executor, not only the Builder's.
afterSwitchFilterAll(p, r) ==
    [r EXCEPT !.errQueriesByName = exposedErrors(@)]

\* Lines 535-555: the executor's return as the switch leaves it.
afterSwitch(p, r) ==
    IF p.QueryType = "builder"
    THEN [r EXCEPT !.errQueriesByName = exposedErrors(@)]
    ELSE r

\* Lines 557-564: the error after the value-panel check.
valuePanelErr(p, results, err) ==
    IF p.PanelType = "value"
    THEN IF Len(results) > 1 /\ EnabledQueries(p) > 1
         THEN ErrValueQueries
         ELSE IF Len(results) = 1 /\ Len(results[1].Series) > 1
         THEN ErrValueSeries
         ELSE err
    ELSE err

\* What QueryRange returns, given what the executor returned.
queryRangeReturn(p, r) ==
    LET a == afterSwitch(p, r)
    IN [a EXCEPT !.err = valuePanelErr(p, a.results, a.err)]

(***************************************************************************)
(* QueryRange: dispatch and fan-out                                        *)
(***************************************************************************)

\* A QueryRangeParamsV3 with its composite query; CacheKeys is what
\* keyGenerator.GenerateKeys answers for it.
Request(queryType, panelType, queries, noCache, start, end) ==
    [QueryType |-> queryType, PanelType |-> panelType, Queries |-> queries,
     NoCache |-> noCache, Start |-> start, End |-> end, Step |-> 60,
     CacheKeys |-> [n \in DOMAIN queries |-> n]]

\* The request p when keyGenerator.GenerateKeys answers keys for the names
\* in keyed only (line 364: ok is false for the others).
Keyed(p, keyed) == [p EXCEPT !.CacheKeys = [n \in keyed |-> n]]

\* A sub-query: Disabled, and Final when its name is its own expression.
Query(disabled, final) == [Disabled |-> disabled, Final |-> final]

\* One or two sub-queries, each enabled or disabled.
PlainQueries ==
    UNION {[D -> {Query(FALSE, TRUE), Query(TRUE, TRUE)}] : D \in {{"A"}, {"A", "B"}}}

\* Builder sub-queries may also be intermediate (name # expression).
BuilderQueries ==
    UNION {[D -> {Query(FALSE, TRUE), Query(TRUE, TRUE), Query(FALSE, FALSE)}] :
              D \in {{"A"}, {"A", "B"}}}

\* A QueryRangeParamsV3 whose CompositeQuery is nil: it has no query type,
\* panel type or sub-queries.
NilCompositeRequest == Request("nil", "nil", << >>, FALSE, 1, MaxT)

\* Line 533: params.CompositeQuery != nil.
hasCompositeQuery(p) == p.QueryType # "nil"

\* The requests of the orchestrator specification: every query type and
\* panel type over one window, with a cache key for every sub-query or,
\* with two PromQL sub-queries, for A only; and the request without
\* composite query.
Requests ==
    {Request("builder", pt, q, FALSE, 1, MaxT) :
        pt \in {"graph", "value", "list", "trace"}, q \in BuilderQueries}
    \cup {Request(qt, pt, q, FALSE, 1, MaxT) :
        qt \in {"clickhouse_sql", "unknown"}, pt \in {"graph", "value"}, q \in PlainQueries}
    \cup {Request("promql", pt, q, nc, 1, MaxT) :
        pt \in {"graph", "value"}, q \in PlainQueries, nc \in BOOLEAN}
    \cup {Keyed(Request("promql", "graph", q, FALSE, 1, MaxT), {"A"}) :
        q \in {x \in PlainQueries : DOMAIN x = {"A", "B"}}}
    \cup {NilCompositeRequest}

\* The start of every call: the previous call's return and logs are gone.
beginCall(p, limit, prep) ==
    /\ pc \in {"idle", "returned"}
    /\ prepared' = prep
    /\ calls < limit
    /\ calls' = calls + 1
    /\ params' = p
    /\ channelResults' = << >>
    /\ sent' = [n \in Names |-> << >>]
    /\ queriesExecuted' = [n \in Names |-> << >>]
    /\ cacheCalls' = [n \in Names |-> << >>]
    /\ UNCHANGED <<cache, now, querier, rcVars>>

\* ret while no call has returned.
NoReturn == [results |-> << >>, errQueriesByName |-> NilMap, err |-> NoErr]

\* params before the first call.
NoRequest == Request("none", "none", << >>, FALSE, 0, 0)

\* The goroutines an executor starts: one per name in started.
spawn(started, first) ==
    /\ unit' = [n \in Names |-> IF n \in started THEN first ELSE NoUnit]
    /\ pc' = "running"
    /\ ret' = NoReturn

\* QueryRange -> runPromQueries (lines 353-362): a goroutine per sub-query
\* that is not disabled.
StartPromQueries(p, limit) ==
    /\ p.QueryType = "promql"
    /\ beginCall(p, limit, "none")
    /\ spawn({n \in DOMAIN p.Queries : ~p.Queries[n].Disabled}, [pc |-> "start"])

\* QueryRange -> runClickHouseQueries (lines 439-446).
StartClickHouseQueries(p, limit) ==
    /\ p.QueryType = "clickhouse_sql"
    /\ beginCall(p, limit, "none")
    /\ spawn({n \in DOMAIN p.Queries : ~p.Queries[n].Disabled}, [pc |-> "exec"])

\* QueryRange -> runBuilderQueries (lines 313-323): a goroutine per
\* sub-query whose name is its expression.
StartBuilderQueries(p, limit) ==
    /\ p.QueryType = "builder"
    /\ p.PanelType \notin {"list", "trace"}
    /\ beginCall(p, limit, "none")
    /\ spawn({n \in DOMAIN p.Queries : p.Queries[n].Final}, [pc |-> "build"])

\* builder.PrepareQueries(params, keys) when it succeeds: the query text of
\* every sub-query, by name.
PrepareQueries(p) == DOMAIN p.Queries

\* QueryRange -> runBuilderListQueries (lines 480-501) when PrepareQueries
\* succeeds: a goroutine per prepared query.
StartBuilderListQueries(p, limit) ==
    /\ p.QueryType = "builder"
    /\ p.PanelType \in {"list", "trace"}
    /\ beginCall(p, limit, "ok")
    /\ spawn(PrepareQueries(p), [pc |-> "list"])

\* QueryRange -> runBuilderListQueries when PrepareQueries fails: the call
\* returns at once.
FailPrepareQueries(p, limit) ==
    /\ p.QueryType = "builder"
    /\ p.PanelType \in {"list", "trace"}
    /\ beginCall(p, limit, "failed")
    /\ unit' = [n \in Names |-> NoUnit]
    /\ pc' = "returned"
    /\ ret' = queryRangeReturn(p, prepareFailedReturn(ErrTranslation))

\* A switch without its default case: an unknown query type returns a nil
\* error.
InvalidQueryTypeFallsThrough(p, limit) ==
    /\ hasCompositeQuery(p)
    /\ p.QueryType \notin {"builder", "promql", "clickhouse_sql"}
    /\ beginCall(p, limit, "none")
    /\ unit' = [n \in Names |-> NoUnit]
    /\ pc' = "returned"
    /\ ret' = queryRangeReturn(p, [results |-> << >>, errQueriesByName |-> NilMap,
                                   err |-> NoErr])

\* QueryRange with a query type that is none of the three (lines 552-553).
InvalidQueryType(p, limit) ==
    /\ hasCompositeQuery(p)
    /\ p.QueryType \notin {"builder", "promql", "clickhouse_sql"}
    /\ beginCall(p, limit, "none")
    /\ unit' = [n \in Names |-> NoUnit]
    /\ pc' = "returned"
    /\ ret' = queryRangeReturn(p, [results |-> << >>, errQueriesByName |-> NilMap,
                                   err |-> ErrInvalidQueryType])

\* QueryRange on a request without composite query: line 533 skips the
\* switch, and line 558 reads PanelType through the nil CompositeQuery, a nil
\* pointer dereference: the call panics and returns nothing.
NilCompositeQuery(p, limit) ==
    /\ ~hasCompositeQuery(p)
    /\ beginCall(p, limit, "none")
    /\ unit' = [n \in Names |-> NoUnit]
    /\ pc' = "panicked"
    /\ ret' = NoReturn

\* channelResults <- r
send(r) ==
    /\ channelResults' = Append(channelResults, r)
    /\ sent' = [sent EXCEPT ![r.Name] = Append(@, r)]

\* Everything a goroutine step leaves alone besides what it names.
unitFrame == UNCHANGED <<params, pc, prepared, now, querier, ret, calls, rcVars>>

(***************************************************************************)
(* The PromQL goroutine (lines 362-409)                                    *)
(***************************************************************************)

\* A cache condition that does not look at the request's NoCache.
useCacheIgnoresNoCache(n) ==
    querier.hasCache /\ n \in DOMAIN params.CacheKeys

\* Line 367: whether this sub-query uses the cache.
useCache(n) ==
    ~params.NoCache /\ querier.hasCache /\ n \in DOMAIN params.CacheKeys

\* Line 374, with the cached bytes the goroutine holds.
promLookedUp(n, cachedData) ==
    LET m == qFindMissingTimeRanges(params.Start, params.End, params.Step,
                                    cachedData, querier.fluxInterval, now)
    IN [pc |-> "fetch", cachedData |-> cachedData, misses |-> m.misses,
        replaceCachedData |-> m.replaceCacheData, next |-> 1,
        missedSeries |-> << >>, mergedSeries |-> << >>]

\* Lines 364-375: the cache lookup, when it is skipped or answers without
\* error (a key miss answers nil data), and the reconciliation.
PromRetrieve(n) ==
    /\ unit[n].pc = "start"
    /\ unit' = [unit EXCEPT ![n] =
           promLookedUp(n, IF useCache(n) THEN cache[params.CacheKeys[n]] ELSE NilBytes)]
    /\ cacheCalls' = [cacheCalls EXCEPT ![n] =
           IF useCache(n) THEN Append(@, "Retrieve") ELSE @]
    /\ UNCHANGED <<channelResults, sent, cache, queriesExecuted>>
    /\ unitFrame

\* A goroutine that reports the error of cache.Retrieve and returns.
PromRetrieveErrorFails(n) ==
    /\ unit[n].pc = "start"
    /\ useCache(n)
    /\ unit' = [unit EXCEPT ![n] = [promLookedUp(n, NilBytes) EXCEPT !.pc = "done"]]
    /\ cacheCalls' = [cacheCalls EXCEPT ![n] = Append(@, "Retrieve")]
    /\ send(channelResult(Error("internal"), n, << >>, << >>))
    /\ UNCHANGED <<cache, queriesExecuted>>
    /\ unitFrame

\* Lines 364-375 when cache.Retrieve answers an error: no cached data.
PromRetrieveError(n) ==
    /\ unit[n].pc = "start"
    /\ useCache(n)
    /\ unit' = [unit EXCEPT ![n] = promLookedUp(n, NilBytes)]
    /\ cacheCalls' = [cacheCalls EXCEPT ![n] = Append(@, "Retrieve")]
    /\ UNCHANGED <<channelResults, sent, cache, queriesExecuted>>
    /\ unitFrame

\* A goroutine that asks the backend for the whole window of the request at
\* every miss.
PromFetchWholeWindow(n) ==
    /\ unit[n].pc = "fetch"
    /\ unit[n].next <= Len(unit[n].misses)
    /\ backendSucceeds
    /\ LET query == BuildPromQuery(n, missInterval(params.Start, params.End))
       IN /\ queriesExecuted' = [queriesExecuted EXCEPT ![n] =
                               Append(@, executed(query, NoErr))]
          /\ unit' = [unit EXCEPT
                 ![n].missedSeries = @ \o execPromQuery(n, query.Start, query.End),
                 ![n].next = @ + 1]
    /\ UNCHANGED <<channelResults, sent, cache, cacheCalls>>
    /\ unitFrame

\* Lines 377-385, one miss whose range query succeeds.
PromFetch(n) ==
    /\ unit[n].pc = "fetch"
    /\ unit[n].next <= Len(unit[n].misses)
    /\ backendSucceeds
    /\ LET query == BuildPromQuery(n, unit[n].misses[unit[n].next])
       IN /\ queriesExecuted' = [queriesExecuted EXCEPT ![n] =
                               Append(@, executed(query, NoErr))]
          /\ unit' = [unit EXCEPT
                 ![n].missedSeries = @ \o execPromQuery(n, query.Start, query.End),
                 ![n].next = @ + 1]
    /\ UNCHANGED <<channelResults, sent, cache, cacheCalls>>
    /\ unitFrame

\* A goroutine that skips the miss whose range query failed and goes on to
\* the next one.
PromFetchErrorSkips(n, err) ==
    /\ unit[n].pc = "fetch"
    /\ unit[n].next <= Len(unit[n].misses)
    /\ LET query == BuildPromQuery(n, unit[n].misses[unit[n].next])
       IN queriesExecuted' = [queriesExecuted EXCEPT ![n] =
                               Append(@, executed(query, Error(err)))]
    /\ unit' = [unit EXCEPT ![n].next = @ + 1]
    /\ UNCHANGED <<channelResults, sent, cache, cacheCalls>>
    /\ unitFrame

\* Lines 379-383, one miss whose range query fails with err: the goroutine
\* reports the error and returns.
PromFetchError(n, err) ==
    /\ unit[n].pc = "fetch"
    /\ unit[n].next <= Len(unit[n].misses)
    /\ backendFails(err)
    /\ LET query == BuildPromQuery(n, unit[n].misses[unit[n].next])
       IN queriesExecuted' = [queriesExecuted EXCEPT ![n] =
                               Append(@, executed(query, Error(err)))]
    /\ send(channelResult(Error(err), n, << >>, << >>))
    /\ unit' = [unit EXCEPT ![n].pc = "done"]
    /\ UNCHANGED <<cache, cacheCalls>>
    /\ unitFrame

\* A goroutine that reports the merge result even when replaceCachedData is
\* set.
promMergedKeepsCache(u) ==
    mergeSerieses(Unmarshal(u.cachedData, << >>).seriesList, u.missedSeries).mergedSeries

\* Lines 386-393: the series the goroutine reports.  cachedSeries stays
\* empty when the cached bytes do not decode.
promMerged(u) ==
    LET cachedSeries == Unmarshal(u.cachedData, << >>).seriesList
        m            == mergeSerieses(cachedSeries, u.missedSeries)
    IN IF u.replaceCachedData THEN m.missedSeries ELSE m.mergedSeries

\* The goroutine storing after every result it reports.
promStoresAlways(n, u) == useCache(n)

\* Line 397: whether the goroutine goes on to store.
promStores(n, u) == Len(u.missedSeries) > 0 /\ useCache(n)

\* Lines 386-394, after the last miss: merge and report the result.
PromMerge(n) ==
    /\ unit[n].pc = "fetch"
    /\ unit[n].next > Len(unit[n].misses)
    /\ LET merged == promMerged(unit[n])
       IN /\ send(channelResult(NoErr, n, merged, << >>))
          /\ unit' = [unit EXCEPT
                 ![n].mergedSeries = merged,
                 ![n].pc = IF promStores(n, unit[n]) THEN "store" ELSE "done"]
    /\ UNCHANGED <<cache, queriesExecuted, cacheCalls>>
    /\ unitFrame

\* Lines 397-408 when cache.Store succeeds.
PromStore(n) ==
    /\ unit[n].pc = "store"
    /\ cache' = [cache EXCEPT ![params.CacheKeys[n]] = Marshal(unit[n].mergedSeries)]
    /\ cacheCalls' = [cacheCalls EXCEPT ![n] = Append(@, "Store")]
    /\ unit' = [unit EXCEPT ![n].pc = "done"]
    /\ UNCHANGED <<channelResults, sent, queriesExecuted>>
    /\ unitFrame

\* A goroutine that also reports the error of cache.Store on the channel.
PromStoreErrorFails(n) ==
    /\ unit[n].pc = "store"
    /\ cacheCalls' = [cacheCalls EXCEPT ![n] = Append(@, "Store")]
    /\ unit' = [unit EXCEPT ![n].pc = "done"]
    /\ send(channelResult(Error("internal"), n, << >>, << >>))
    /\ UNCHANGED <<cache, queriesExecuted>>
    /\ unitFrame

\* Lines 403-407 when cache.Store answers an error: logged, nothing else.
PromStoreError(n) ==
    /\ unit[n].pc = "store"
    /\ cacheCalls' = [cacheCalls EXCEPT ![n] = Append(@, "Store")]
    /\ unit' = [unit EXCEPT ![n].pc = "done"]
    /\ UNCHANGED <<channelResults, sent, cache, queriesExecuted>>
    /\ unitFrame

(***************************************************************************)
(* The other goroutines                                                    *)
(***************************************************************************)

\* A filter that also removes the points at timestamp zero.
keptPointPositive(point) == point.Timestamp > 0

\* Line 107: the points execClickHouseQuery keeps.
keptPoint(point) == point.Timestamp >= 0

\* execClickHouseQuery: in testing mode (lines 95-98) the querier's
\* returnedSeries as they are; with a reader (lines 99-118) the reader's
\* series with the points that pass keptPoint.
execClickHouseQuery(result) ==
    IF testing THEN querier.returnedSeries
    ELSE [i \in 1..Len(result) |->
             [result[i] EXCEPT !.Points = SelectSeq(@, keptPoint)]]

\* Lines 446-450 when the reader answers series.
ClickHouseUnit(n) ==
    /\ unit[n].pc = "exec"
    /\ backendSucceeds
    /\ \E result \in ClickHouseResponses :
           send(channelResult(NoErr, n, execClickHouseQuery(result), << >>))
    /\ queriesExecuted' = [queriesExecuted EXCEPT ![n] = Append(@, executed([Query |-> n], NoErr))]
    /\ unit' = [unit EXCEPT ![n].pc = "done"]
    /\ UNCHANGED <<cache, cacheCalls>>
    /\ unitFrame

\* Lines 446-450 when the reader answers an error (and no series).
ClickHouseUnitError(n, err) ==
    /\ unit[n].pc = "exec"
    /\ backendFails(err)
    /\ send(channelResult(Error(err), n, << >>, << >>))
    /\ queriesExecuted' = [queriesExecuted EXCEPT ![n] = Append(@, executed([Query |-> n], Error(err)))]
    /\ unit' = [unit EXCEPT ![n].pc = "done"]
    /\ UNCHANGED <<cache, cacheCalls>>
    /\ unitFrame

\* runBuilderQuery when it succeeds: one result with the unit's series.
BuilderUnit(n) ==
    /\ unit[n].pc = "build"
    /\ \E series \in BuilderResponses : send(channelResult(NoErr, n, series, << >>))
    /\ queriesExecuted' = [queriesExecuted EXCEPT ![n] = Append(@, executed([Query |-> n], NoErr))]
    /\ unit' = [unit EXCEPT ![n].pc = "done"]
    /\ UNCHANGED <<cache, cacheCalls>>
    /\ unitFrame

\* runBuilderQuery when it fails: one result with the error.
BuilderUnitError(n, err) ==
    /\ unit[n].pc = "build"
    /\ send(channelResult(Error(err), n, << >>, << >>))
    /\ queriesExecuted' = [queriesExecuted EXCEPT ![n] = Append(@, executed([Query |-> n], Error(err)))]
    /\ unit' = [unit EXCEPT ![n].pc = "done"]
    /\ UNCHANGED <<cache, cacheCalls>>
    /\ unitFrame

\* Lines 491-500 when reader.GetListResultV3 answers rows.
ListUnit(n) ==
    /\ unit[n].pc = "list"
    /\ \E rowList \in ListResponses : send(channelResult(NoErr, n, << >>, rowList))
    /\ queriesExecuted' = [queriesExecuted EXCEPT ![n] = Append(@, executed([Query |-> n], NoErr))]
    /\ unit' = [unit EXCEPT ![n].pc = "done"]
    /\ UNCHANGED <<cache, cacheCalls>>
    /\ unitFrame

\* Lines 493-498 when reader.GetListResultV3 answers an error.
ListUnitError(n, err) ==
    /\ unit[n].pc = "list"
    /\ send(channelResult(Errorf(Error(err)), n, << >>, << >>))
    /\ queriesExecuted' = [queriesExecuted EXCEPT ![n] = Append(@, executed([Query |-> n], Error(err)))]
    /\ unit' = [unit EXCEPT ![n].pc = "done"]
    /\ UNCHANGED <<cache, cacheCalls>>
    /\ unitFrame

(***************************************************************************)
(* The join and the return                                                 *)
(***************************************************************************)

\* A join that does not wait for the goroutines that are storing.
joinedBeforeStore == \A n \in Names : unit[n].pc \in {"none", "done", "store"}

\* A join that also waits for the sub-queries no goroutine was started for.
joinedEverySubQuery == \A n \in DOMAIN params.Queries : unit[n].pc = "done"

\* wg.Wait() returns: every goroutine that was started has finished.
joined == \A n \in Names : unit[n].pc \in {"none", "done"}

\* What the executor chosen for p returns from the closed channel.
executorReturn(p, ch) ==
    IF p.QueryType = "promql" THEN seriesReturn(ch, ErrProm)
    ELSE IF p.QueryType = "clickhouse_sql" THEN seriesReturn(ch, ErrClickHouse)
    ELSE IF p.PanelType \in {"list", "trace"} THEN listReturn(ch)
    ELSE seriesReturn(ch, ErrBuilder)

\* wg.Wait, close, the drain loop, the executor's return and the rest of
\* QueryRange (lines 411-435 and their like, then 543-566).
Return ==
    /\ pc = "running"
    /\ joined
    /\ ret' = queryRangeReturn(params, executorReturn(params, channelResults))
    /\ pc' = "returned"
    /\ channelResults' = << >>
    /\ UNCHANGED <<params, prepared, unit, sent, cache, now, querier, queriesExecuted, cacheCalls,
                   calls, rcVars>>

\* The instants at which the calls read the clock.
NowValues == {61003, 121003}

\* Time passes.
Tick ==
    /\ \E t \in NowValues : t > now /\ now' = t
    /\ UNCHANGED <<params, pc, prepared, unit, channelResults, sent, cache, querier, ret,
                   queriesExecuted, cacheCalls, calls, rcVars>>

(***************************************************************************)
(* Specifications                                                          *)
(***************************************************************************)

\* The querier as NewQuerier leaves it, with a cache and a flux interval
\* that starts 3 ms after the epoch at the first instant of NowValues.
Queriers ==
    {[fluxInterval |-> 59997, hasCache |-> TRUE, reader |-> "ascending",
      testingMode |-> FALSE, returnedSeries |-> << >>, returnedErr |-> NoErr]}

\* One of queriers before its first call, over a cache that holds one of
\* payloads under each key.
InitQuerier(payloads, queriers) ==
    /\ querier \in queriers
    /\ params = NoRequest
    /\ pc = "idle"
    /\ prepared = "none"
    /\ unit = [n \in Names |-> NoUnit]
    /\ channelResults = << >>
    /\ sent = [n \in Names |-> << >>]
    /\ cache \in [Names -> payloads]
    /\ now = 61003
    /\ ret = NoReturn
    /\ queriesExecuted = [n \in Names |-> << >>]
    /\ cacheCalls = [n \in Names |-> << >>]
    /\ calls = 0

\* A querier before its first call, over a cache that holds one of payloads
\* under each key.
InitOrch(payloads) == InitQuerier(payloads, Queriers)

\* rcIn and rcOut while findMissingTimeRanges is not called directly.
NoRcIn == [start |-> 0, end |-> 0, step |-> 1, seriesList |-> << >>,
           fluxMs |-> 0, endMillis |-> 0]

NoRcOut == [done |-> FALSE, misses |-> << >>, replaceCacheData |-> FALSE,
            panicked |-> FALSE]

\* No direct findMissingTimeRanges call.
InitNoRc == rcIn = NoRcIn /\ rcOut = NoRcOut

\* mgIn and mgOut while mergeSerieses is not called directly.
NoMgIn == [cachedSeries |-> << >>, missedSeries |-> << >>]

NoMgOut == [done |-> FALSE, mergedSeries |-> << >>, swappedSeries |-> << >>,
            cachedSeries |-> << >>, missedSeries |-> << >>]

InitNoMg == mgIn = NoMgIn /\ mgOut = NoMgOut

\* lbIn and lbOut while labelsToString is not called directly.
NoLbIn == [a |-> << >>, b |-> << >>]

NoLbOut == [done |-> FALSE, a |-> << >>, b |-> << >>]

InitNoLb == lbIn = NoLbIn /\ lbOut = NoLbOut

\* fsIn and fsOut while buildResourceFiltersFromFilterItems is not called.
NoFsIn == [isNil |-> TRUE, Items |-> << >>]

NoFsOut == [done |-> FALSE, conditions |-> << >>, err |-> ""]

InitNoFs == fsIn = NoFsIn /\ fsOut = NoFsOut

\* fcIn and fcOut while filterCachedPoints is not called directly.
NoFcIn == [cachedSeries |-> << >>, start |-> 0, end |-> 0]

NoFcOut == [done |-> FALSE, cachedSeries |-> << >>]

InitNoFc == fcIn = NoFcIn /\ fcOut = NoFcOut

\* What the cache may hold when a call starts: nothing, bytes that do not
\* decode, or an earlier result for the middle of the window.
InitPayloads == {NilBytes, Corrupt, Marshal(execPromQuery("A", 3, 3))}

Init == InitOrch(InitPayloads) /\ InitNoRc /\ InitNoMg /\ InitNoLb /\ InitNoFs /\ InitNoFc

UnitStep(n) ==
    \/ PromRetrieve(n)
    \/ PromRetrieveError(n)
    \/ PromFetch(n)
    \/ \E err \in BackendErrors : PromFetchError(n, err)
    \/ PromMerge(n)
    \/ PromStore(n)
    \/ PromStoreError(n)
    \/ ClickHouseUnit(n)
    \/ \E err \in BackendErrors : ClickHouseUnitError(n, err)
    \/ BuilderUnit(n)
    \/ \E err \in BackendErrors : BuilderUnitError(n, err)
    \/ ListUnit(n)
    \/ \E err \in BackendErrors : ListUnitError(n, err)

QueryRange(p, limit) ==
    \/ StartPromQueries(p, limit)
    \/ StartClickHouseQueries(p, limit)
    \/ StartBuilderQueries(p, limit)
    \/ StartBuilderListQueries(p, limit)
    \/ FailPrepareQueries(p, limit)
    \/ InvalidQueryType(p, limit)
    \/ NilCompositeQuery(p, limit)

Next ==
    \/ \E p \in Requests : QueryRange(p, OrchCalls)
    \/ \E n \in Names : UnitStep(n)
    \/ Return

\* The orchestrator: one call of any kind, every interleaving of its
\* goroutines.
Spec == Init /\ [][Next]_vars

\* The requests of the orchestrator over the window [1, 2].
FairRequests == {[p EXCEPT !.End = 2] : p \in Requests}

FairNext ==
    \/ \E p \in FairRequests : QueryRange(p, OrchCalls)
    \/ \E n \in Names : UnitStep(n)
    \/ Return

\* The orchestrator starts over an empty cache.
FairInit ==
    InitOrch({NilBytes}) /\ InitNoRc /\ InitNoMg /\ InitNoLb /\ InitNoFs /\ InitNoFc

\* The orchestrator over an empty cache under fair scheduling: a goroutine
\* that can take a step eventually takes one (every cache and backend call
\* returns, with a value or an error), and so does the caller once wg.Wait
\* can return.
FairSpec ==
    /\ FairInit
    /\ [][FairNext]_vars
    /\ WF_vars(Return)
    /\ \A n \in Names : WF_vars(UnitStep(n))

\* The requests of the cache specification: one PromQL sub-query A over
\* every window [start, end] with start < end in 1..MaxT.
CacheRequests ==
    {Request("promql", "graph", [n \in {"A"} |-> Query(FALSE, TRUE)], FALSE, start, end) :
        start \in 1..MaxT, end \in 1..MaxT} \ {r \in
    {Request("promql", "graph", [n \in {"A"} |-> Query(FALSE, TRUE)], FALSE, start, end) :
        start \in 1..MaxT, end \in 1..MaxT} : r.Start >= r.End}

PromUnitStep(n) ==
    \/ PromRetrieve(n)
    \/ PromRetrieveError(n)
    \/ PromFetch(n)
    \/ \E err \in BackendErrors : PromFetchError(n, err)
    \/ PromMerge(n)
    \/ PromStore(n)
    \/ PromStoreError(n)

CacheInit == InitOrch({NilBytes}) /\ InitNoRc /\ InitNoMg /\ InitNoLb /\ InitNoFs /\ InitNoFc

CacheNext ==
    \/ \E p \in CacheRequests : StartPromQueries(p, MaxCalls)
    \/ \E n \in Names : PromUnitStep(n)
    \/ Return
    \/ Tick

\* The cache across calls: up to MaxCalls PromQL calls under one cache key,
\* over any windows, while time passes.
CacheSpec == CacheInit /\ [][CacheNext]_vars

\* Queriers whose reader hands the samples of a window over in ascending or
\* in descending order of time.
OrderQueriers ==
    {[q EXCEPT !.reader = order] : q \in Queriers, order \in {"ascending", "descending"}}

OrderInit ==
    InitQuerier({NilBytes}, OrderQueriers) /\ InitNoRc /\ InitNoMg /\ InitNoLb /\ InitNoFs /\ InitNoFc

\* The cache across calls over a reader of either order.
OrderSpec == OrderInit /\ [][CacheNext]_vars

\* The returnedSeries of a querier in testing mode: one series, its points
\* already sorted and distinct, so that sorting it in place leaves it as it
\* is.
TestingSeries == << Series(L1, << Point(1, 10), Point(2, 20) >>) >>

\* Queriers in testing mode (NewQuerier with TestingMode and no reader): they
\* answer every backend query with returnedSeries and returnedErr.
TestingQueriers ==
    {[q EXCEPT !.reader = "nil", !.testingMode = TRUE,
               !.returnedSeries = TestingSeries, !.returnedErr = e] :
        q \in Queriers, e \in {NoErr} \cup {Error(k) : k \in BackendErrors}}

\* The requests whose executors go through execPromQuery and
\* execClickHouseQuery.
TestingRequests == {p \in Requests : p.QueryType \in {"promql", "clickhouse_sql"}}

TestingInit ==
    InitQuerier(InitPayloads, TestingQueriers) /\ InitNoRc /\ InitNoMg /\ InitNoLb
    /\ InitNoFs /\ InitNoFc

TestingUnitStep(n) ==
    \/ PromUnitStep(n)
    \/ ClickHouseUnit(n)
    \/ \E err \in BackendErrors : ClickHouseUnitError(n, err)

TestingNext ==
    \/ \E p \in TestingRequests : StartPromQueries(p, OrchCalls)
    \/ \E p \in TestingRequests : StartClickHouseQueries(p, OrchCalls)
    \/ \E n \in Names : TestingUnitStep(n)
    \/ Return

\* One PromQL or raw-SQL call on a querier in testing mode, every
\* interleaving of its goroutines.
TestingSpec == TestingInit /\ [][TestingNext]_vars

\* Queriers whose reader holds the samples of 1..MaxT, or none at all.
SparseQueriers ==
    {[q EXCEPT !.reader = r] : q \in Queriers, r \in {"ascending", "empty"}}

PromRequests == {p \in Requests : p.QueryType = "promql"}

SparseInit ==
    InitQuerier(InitPayloads, SparseQueriers) /\ InitNoRc /\ InitNoMg /\ InitNoLb
    /\ InitNoFs /\ InitNoFc

SparseNext ==
    \/ \E p \in PromRequests : StartPromQueries(p, OrchCalls)
    \/ \E n \in Names : PromUnitStep(n)
    \/ Return

\* One PromQL call over a reader that has samples or has none, every
\* interleaving of its goroutines.
SparseSpec == SparseInit /\ [][SparseNext]_vars

\* Up to MaxPoints cached points in a direct findMissingTimeRanges call.
MaxPoints == 3

\* The point sequences of length at most n with timestamps in ts.
RECURSIVE PointSeqs(_, _)
PointSeqs(ts, n) ==
    IF n = 0 THEN {<< >>}
    ELSE PointSeqs(ts, n - 1)
         \cup {Append(q, Point(t, 0)) : q \in PointSeqs(ts, n - 1), t \in ts}

\* The cached series lists of a direct call: no series, or the points in
\* one series, or split over two series.
RcSeriesLists ==
    {<< >>}
    \cup {<< Series(L1, q) >> : q \in PointSeqs((0 - 1)..3, MaxPoints)}
    \cup {<< Series(L1, SubSeq(q, 1, 1)), Series(L2, SubSeq(q, 2, Len(q))) >> :
             q \in PointSeqs((0 - 1)..3, MaxPoints) \ {<< >>}}

\* The inputs of a direct call: every window in 0..MaxT, steps below and
\* above 60 s, and flux intervals that end at 0, 1 and 3 ms (for the steps
\* of a minute and more) or long after the window.
RcInputs ==
    [start : 0..MaxT, end : 0..MaxT, step : {1, 60, 61},
     seriesList : RcSeriesLists, fluxMs : {60000, 59999, 59997, 0}, endMillis : {61003}]

\* The request [100, 200] over a cache that holds [120, 180], [300, 400] or
\* [50, 250], all of it older than the flux interval.
RcExamples ==
    {[start |-> 100, end |-> 200, step |-> 60,
      seriesList |-> << Series(L1, << Point(c[1], 0), Point(c[2], 0) >>) >>,
      fluxMs |-> 0, endMillis |-> 61003] :
        c \in {<< 120, 180 >>, << 300, 400 >>, << 50, 250 >>}}

\* The same requests with a step of zero seconds.
RcZeroStep == {[i EXCEPT !.step = 0] : i \in RcExamples}

ReconcileInit ==
    /\ InitOrch({NilBytes})
    /\ rcIn \in {i \in RcInputs : i.start <= i.end} \cup RcExamples \cup RcZeroStep
    /\ rcOut = NoRcOut
    /\ InitNoMg
    /\ InitNoLb
    /\ InitNoFs /\ InitNoFc

\* Line 180: the divisor of the remainder is zero.  Go's integer remainder
\* by zero is a run-time panic.
dividesByZero(step) == adjustStep(step) * 1000 = 0

\* findMissingTimeRanges(start, end, step, seriesList, fluxInterval) called
\* at instant endMillis: it returns, or panics at line 180 before it has
\* returned anything.
Reconcile ==
    /\ ~rcOut.done
    /\ ~rcOut.panicked
    /\ IF dividesByZero(rcIn.step)
       THEN rcOut' = [NoRcOut EXCEPT !.panicked = TRUE]
       ELSE LET r == findMissingTimeRanges(rcIn.start, rcIn.end, rcIn.step,
                         rcIn.seriesList, rcIn.fluxMs, rcIn.endMillis)
            IN rcOut' = [done |-> TRUE, misses |-> r.misses,
                         replaceCacheData |-> r.replaceCacheData,
                         panicked |-> FALSE]
    /\ UNCHANGED <<orchVars, rcIn, mgIn, mgOut, lbIn, lbOut, fsIn, fsOut, fcIn, fcOut>>

ReconcileNext == Reconcile

\* findMissingTimeRanges on its own, over RcInputs.
ReconcileSpec == ReconcileInit /\ [][ReconcileNext]_vars

\* Label maps whose signatures meet: {a="1,b=2"} and {a="1", b="2"}
\* (97 is 'a', 98 'b', 49 '1', 50 '2').
L3 == (<< 97 >> :> << 49, 44, 98, 61, 50 >>)

L4 == (<< 97 >> :> << 49 >>) @@ (<< 98 >> :> << 50 >>)

\* The series of a direct mergeSerieses call: at most two points, in any
\* order, with timestamps 1 and 2.
MgSeries == {Series(l, q) : l \in {L1, L3, L4}, q \in PointSeqs(1..2, 2)}

\* Its series lists: at most two series.
MgSeriesLists ==
    {<< >>} \cup {<< x >> : x \in MgSeries} \cup {<< x, y >> : x, y \in MgSeries}

\* Its inputs: at most three series in all.
MgInputs ==
    {i \in [cachedSeries : MgSeriesLists, missedSeries : MgSeriesLists] :
        Len(i.cachedSeries) + Len(i.missedSeries) <= 3}

MergeInit ==
    /\ InitOrch({NilBytes})
    /\ InitNoRc
    /\ mgIn \in MgInputs
    /\ mgOut = NoMgOut
    /\ InitNoLb
    /\ InitNoFs /\ InitNoFc

\* mergeSerieses(cachedSeries, missedSeries) called on its own, and called
\* with the two arguments swapped; cachedSeries and missedSeries of mgOut are
\* the objects of the two arguments as the first call leaves them.
Merge ==
    /\ ~mgOut.done
    /\ mgOut' = [done |-> TRUE,
                 mergedSeries |->
                     mergeSerieses(mgIn.cachedSeries, mgIn.missedSeries).mergedSeries,
                 swappedSeries |->
                     mergeSerieses(mgIn.missedSeries, mgIn.cachedSeries).mergedSeries,
                 cachedSeries |->
                     mergeSerieses(mgIn.cachedSeries, mgIn.missedSeries).cachedSeries,
                 missedSeries |->
                     mergeSerieses(mgIn.cachedSeries, mgIn.missedSeries).missedSeries]
    /\ UNCHANGED <<orchVars, rcIn, rcOut, mgIn, lbIn, lbOut, fsIn, fsOut, fcIn, fcOut>>

MergeNext == Merge

\* mergeSerieses on its own, over MgInputs.
MergeSpec == MergeInit /\ [][MergeNext]_vars

\* The label maps of a direct labelsToString call: keys a and b, values
\* "1", "2" and "1,b=2".
LbMaps ==
    UNION {[D -> {<< 49 >>, << 50 >>, << 49, 44, 98, 61, 50 >>}] :
              D \in SUBSET {<< 97 >>, << 98 >>}}

LabelsInit ==
    /\ InitOrch({NilBytes})
    /\ InitNoRc
    /\ InitNoMg
    /\ lbIn \in [a : LbMaps, b : LbMaps]
    /\ lbOut = NoLbOut
    /\ InitNoFs /\ InitNoFc

\* labelsToString called on two label maps.
Signature ==
    /\ ~lbOut.done
    /\ lbOut' = [done |-> TRUE, a |-> labelsToString(lbIn.a),
                 b |-> labelsToString(lbIn.b)]
    /\ UNCHANGED <<orchVars, rcIn, rcOut, mgIn, mgOut, lbIn, fsIn, fsOut, fcIn, fcOut>>

LabelsNext == Signature

\* labelsToString on its own, over pairs of LbMaps.
LabelsSpec == LabelsInit /\ [][LabelsNext]_vars

(***************************************************************************)
(* The resource filters of the logs query builder                          *)
(***************************************************************************)

\* strings.ToLower on the strings of the model.
ToLower(s) ==
    CASE s = "Service.Name" -> "service.name"
      [] s = "IN" -> "in"
      [] s = "Test" -> "test"
      [] s = "A" -> "a"
      [] OTHER -> s

\* strings.ToLower on every string of a sequence.
lowerAll(strs) == [i \in 1..Len(strs) |-> ToLower(strs[i])]

\* v3.AttributeKey and v3.FilterItem.
AttributeKey(key, dataType, type) == [Key |-> key, DataType |-> dataType, Type |-> type]

FilterItem(key, operator, value) == [Key |-> key, Operator |-> operator, Value |-> value]

\* The interface{} values of a filter item: a string, a list of strings, a
\* value of no filter type (a map, say), and nil; strs holds the strings.
StringValue(str) == [kind |-> "string", strs |-> << str >>]

ListValue(strs) == [kind |-> "list", strs |-> strs]

OtherValue == [kind |-> "other", strs |-> << >>]

NilValue == [kind |-> "nil", strs |-> << >>]

\* logOperators: the SQL operator of every filter operator the logs builder
\* supports.
logOperators ==
    [op \in {"=", "!=", "like", "nlike", "contains", "ncontains", "regex", "nregex",
             "in", "nin", "exists", "nexists"} |->
        CASE op = "=" -> "="
          [] op = "!=" -> "!="
          [] op \in {"like", "contains"} -> "LIKE"
          [] op \in {"nlike", "ncontains"} -> "NOT LIKE"
          [] op = "regex" -> "match(%s, %s)"
          [] op = "nregex" -> "NOT match(%s, %s)"
          [] op = "in" -> "IN"
          [] op = "nin" -> "NOT IN"
          [] op = "exists" -> "mapContains(%s_%s, '%s')"
          [] OTHER -> "not mapContains(%s_%s, '%s')"]

\* utils.ValidateAndCastValue(value, dataType): a string and a list of
\* strings are strings; no string of the model is a number.
ValidateAndCastValue(value, dataType) ==
    IF dataType = "string"
    THEN [value |-> value, err |-> value.kind \notin {"string", "list"}]
    ELSE [value |-> value, err |-> ~(value.kind = "list" /\ value.strs = << >>)]

\* A condition of the WHERE clause: the shape of its text and what is
\* formatted into it.  The empty string has the shape "".
Condition(shape, key, sqlOp, strs) ==
    [shape |-> shape, key |-> key, sqlOp |-> sqlOp, strs |-> strs]

EmptyString == Condition("", "", "", << >>)

\* buildResourceFilter (lines 11-32).
buildResourceFilter(logsOp, key, op, value) ==
    CASE op = "exists" -> Condition("simpleJSONHas(lower(labels), key)", key, "", << >>)
      [] op = "nexists" ->
            Condition("not simpleJSONHas(lower(labels), key)", key, "", << >>)
      [] op \in {"regex", "nregex"} ->
            Condition("logsOp(searchKey, value)", key, logsOp, value.strs)
      [] op \in {"contains", "ncontains"} ->
            Condition("searchKey logsOp '%lower(value)%'", key, logsOp,
                      lowerAll(value.strs))
      [] OTHER ->
            Condition("searchKey logsOp lower(value)", key, logsOp, lowerAll(value.strs))

\* buildIndexFilterForInOperator (lines 37-69): "" when the value holds no
\* string.
buildIndexFilterForInOperator(key, op, value) ==
    LET sqlOp  == IF op = "nin" THEN "not like" ELSE "like"
        values == IF value.kind \in {"string", "list"} THEN value.strs ELSE << >>
    IN IF Len(values) > 0
       THEN Condition("(lower(labels) sqlOp '%\"key\":\"lower(v)\"%' ...)", key, sqlOp,
                      lowerAll(values))
       ELSE EmptyString

\* buildResourceIndexFilter (lines 71-88).
buildResourceIndexFilter(key, op, value) ==
    CASE op \in {"contains", "=", "like"} ->
            Condition("lower(labels) sqlOp '%key%lower(value)%'", key, "like",
                      lowerAll(value.strs))
      [] op \in {"ncontains", "!=", "nlike"} ->
            Condition("lower(labels) sqlOp '%key%lower(value)%'", key, "not like",
                      lowerAll(value.strs))
      [] op = "nregex" -> Condition("lower(labels) sqlOp '%key%'", key, "not like", << >>)
      [] op \in {"in", "nin"} -> buildIndexFilterForInOperator(key, op, value)
      [] OTHER -> Condition("lower(labels) sqlOp '%key%'", key, "like", << >>)

\* A filter that takes every item for a resource attribute.
isResourceAttributeAlways(item) == TRUE

\* Line 97: the items that are not skipped.
isResourceAttribute(item) == item.Key.Type = "resource"

\* What the function returns: conditions and error ("" is nil).
filtersReturn(conditions, err) == [conditions |-> conditions, err |-> err]

\* One condition appended unless it is the empty string (lines 125-131).
appendFilter(conditions, filter) ==
    IF filter # EmptyString THEN Append(conditions, filter) ELSE conditions

\* The loop of lines 95-136 from item i, with the conditions so far.
RECURSIVE filterItems(_, _, _)
filterItems(items, i, conditions) ==
    IF i > Len(items) THEN filtersReturn(conditions, "")
    ELSE IF ~isResourceAttribute(items[i]) THEN filterItems(items, i + 1, conditions)
    ELSE LET item    == items[i]
             op      == ToLower(item.Operator)
             keyName == ToLower(item.Key.Key)
             cast    == IF op \notin {"exists", "nexists"}
                        THEN ValidateAndCastValue(item.Value, item.Key.DataType)
                        ELSE [value |-> NilValue, err |-> FALSE]
         IN IF item.Key.DataType # "string" /\ op \notin {"in", "nin"}
            THEN filtersReturn(<< >>, "invalid data type for resource attribute")
            ELSE IF cast.err
            THEN filtersReturn(<< >>, "failed to validate and cast value")
            ELSE IF op \notin DOMAIN logOperators
            THEN filtersReturn(<< >>, "unsupported operator")
            ELSE filterItems(items, i + 1,
                     appendFilter(
                         appendFilter(conditions,
                             buildResourceFilter(logOperators[op], keyName, op, cast.value)),
                         buildResourceIndexFilter(keyName, op, cast.value)))

\* buildResourceFiltersFromFilterItems (lines 90-139).
buildResourceFiltersFromFilterItems(fs) ==
    IF fs.isNil \/ Len(fs.Items) = 0 THEN filtersReturn(<< >>, "")
    ELSE filterItems(fs.Items, 1, << >>)

\* At most MaxItems items in a filter set.
MaxItems == 2

\* The items of the filter sets: a resource or a tag attribute, of string or
\* int64 data type, under an operator of any case or an unknown one, with a
\* string, a list with or without a string, or a value of another type.
FsItems ==
    {FilterItem(AttributeKey("Service.Name", dataType, type), operator, value) :
        dataType \in {"string", "int64"}, type \in {"resource", "tag"},
        operator \in {"=", "IN", "exists", "between"},
        value \in {StringValue("Test"), ListValue(<< >>), ListValue(<< "A" >>),
                   OtherValue}}

\* The sequences of at most n items.
RECURSIVE ItemSeqs(_)
ItemSeqs(n) ==
    IF n = 0 THEN {<< >>}
    ELSE ItemSeqs(n - 1)
         \cup {Append(q, item) : q \in ItemSeqs(n - 1), item \in FsItems}

\* The filter sets: nil, or at most MaxItems items.
FsInputs == {NoFsIn} \cup {[isNil |-> FALSE, Items |-> q] : q \in ItemSeqs(MaxItems)}

FiltersInit ==
    /\ InitOrch({NilBytes})
    /\ InitNoRc
    /\ InitNoMg
    /\ InitNoLb
    /\ fsIn \in FsInputs
    /\ fsOut = NoFsOut
    /\ InitNoFc

\* buildResourceFiltersFromFilterItems(fs) called on its own.
BuildFilters ==
    /\ ~fsOut.done
    /\ LET r == buildResourceFiltersFromFilterItems(fsIn)
       IN fsOut' = [done |-> TRUE, conditions |-> r.conditions, err |-> r.err]
    /\ UNCHANGED <<orchVars, rcIn, rcOut, mgIn, mgOut, lbIn, lbOut, fsIn, fcIn, fcOut>>

FiltersNext == BuildFilters

\* buildResourceFiltersFromFilterItems on its own, over FsInputs.
FiltersSpec == FiltersInit /\ [][FiltersNext]_vars

\* The inputs of a direct filterCachedPoints call: the series lists of the
\* reconciler's direct calls, over every window in 0..MaxT.
FcInputs ==
    {i \in [cachedSeries : RcSeriesLists, start : 0..MaxT, end : 0..MaxT] :
        i.start <= i.end}

FilterPointsInit ==
    /\ InitOrch({NilBytes})
    /\ InitNoRc /\ InitNoMg /\ InitNoLb /\ InitNoFs
    /\ fcIn \in FcInputs
    /\ fcOut = NoFcOut

FilterPoints ==
    /\ ~fcOut.done
    /\ fcOut' = [done |-> TRUE,
                 cachedSeries |-> filterCachedPoints(fcIn.cachedSeries, fcIn.start,
                                                     fcIn.end)]
    /\ UNCHANGED <<orchVars, rcIn, rcOut, mgIn, mgOut, lbIn, lbOut, fsIn, fsOut, fcIn>>

FilterPointsNext == FilterPoints

\* filterCachedPoints on its own, over FcInputs.
FilterPointsSpec == FilterPointsInit /\ [][FilterPointsNext]_vars

(***************************************************************************)
(* Claims                                                                  *)
(***************************************************************************)

\* The timestamps the backend holds inside the window of request p.
backendInWindow(p) == {t \in 1..MaxT : p.Start <= t /\ t <= p.End}

\* How many points of the series of seriesList labelled labels have
\* timestamp t.
pointCount(seriesList, labels, t) ==
    Cardinality({ij \in (1..Len(seriesList)) \X (1..MaxT * 8) :
        /\ seriesList[ij[1]].Labels = labels
        /\ ij[2] <= Len(seriesList[ij[1]].Points)
        /\ seriesList[ij[1]].Points[ij[2]].Timestamp = t})

\* A returned PromQL call.
promReturned == pc = "returned" /\ params.QueryType = "promql"

\* C1: cache transparency on the PromQL path: every result of every call of
\* a sequence under one cache key holds, for each series of the sub-query,
\* exactly one point for every backend timestamp inside [start, end].
C1_CacheTransparency ==
    promReturned =>
        \A k \in 1..Len(ret.results) :
            \A l \in Range(PromLabels(ret.results[k].QueryName)) :
                \A t \in backendInWindow(params) :
                    pointCount(ret.results[k].Series, l, t) = 1

\* The milliseconds a list of misses covers.
covered(misses) ==
    UNION {misses[i].start..misses[i].end : i \in 1..Len(misses)}

\* The trusted cached range of a direct call: [cachedStart, min(cachedEnd,
\* roundedNow - fluxInterval)].
rcTrusted ==
    LET r == cachedRange(rcIn.seriesList)
    IN r.cachedStart..cappedCachedEnd(r.cachedEnd, rcIn.endMillis, rcIn.step, rcIn.fluxMs)

\* C2: the misses of findMissingTimeRanges are pairwise non-overlapping and,
\* with the trusted cached range, cover every millisecond of [start, end].
C2_MissesPartition ==
    rcOut.done =>
        /\ \A i, j \in 1..Len(rcOut.misses) :
               i < j => ~(rcOut.misses[i].start <= rcOut.misses[j].end
                          /\ rcOut.misses[j].start <= rcOut.misses[i].end)
        /\ \A t \in rcIn.start..rcIn.end : t \in covered(rcOut.misses) \cup rcTrusted

\* A returned call.
returned == pc = "returned"

\* The sub-queries of the call that are not disabled.
enabledNames == {n \in DOMAIN params.Queries : ~params.Queries[n].Disabled}

\* The sub-queries whose unit reported an error, and those whose unit
\* reported a result.
failedUnits ==
    {n \in Names : \E i \in 1..Len(sent[n]) : sent[n][i].Err # NoErr}

succeededUnits ==
    {n \in Names : \E i \in 1..Len(sent[n]) : sent[n][i].Err = NoErr}

\* The names in the returned results and in the returned error map.
resultNames == {ret.results[k].QueryName : k \in 1..Len(ret.results)}

errNames == DOMAIN ret.errQueriesByName.byName

\* The paths of QueryRange.
onProm == params.QueryType = "promql"

onClickHouse == params.QueryType = "clickhouse_sql"

onBuilderList ==
    params.QueryType = "builder" /\ params.PanelType \in {"list", "trace"}

onBuilderSeries ==
    params.QueryType = "builder" /\ params.PanelType \notin {"list", "trace"}

\* Exactly one enabled sub-query failed and every other one succeeded.
oneFailedOthersSucceeded ==
    /\ Cardinality(failedUnits) = 1
    /\ failedUnits \subseteq enabledNames
    /\ succeededUnits = enabledNames \ failedUnits

\* N-1 results, an error map holding exactly the failed name, an error.
isolatedReturn ==
    /\ Len(ret.results) = Cardinality(enabledNames) - 1
    /\ resultNames = enabledNames \ failedUnits
    /\ ~ret.errQueriesByName.isNil
    /\ errNames = failedUnits
    /\ ret.err # NoErr

C4_ValuePanelTwoQueries ==
    (/\ returned
     /\ params.PanelType = "value"
     /\ Cardinality(enabledNames) = 2
     /\ failedUnits \cup succeededUnits = enabledNames)
        => ret.err \in {ErrValueQueries, ErrValueSeries}

\* C5: a value-panel call that returns a nil error returns at most one
\* result, with at most one series.
C5_ValuePanelSingleResult ==
    (returned /\ params.PanelType = "value" /\ ret.err = NoErr)
        => /\ Len(ret.results) <= 1
           /\ \A k \in 1..Len(ret.results) : Len(ret.results[k].Series) <= 1

\* The units the call started.
startedUnits == {n \in Names : unit[n].pc # "none"}

\* C6: on the Builder row-oriented path, a failed unit makes the call return
\* no results and a non-nil error, whatever the other units did; with no
\* failed unit it returns one result per prepared query and a nil error.
C6_ListAllOrNothing ==
    (returned /\ onBuilderList /\ prepared = "ok")
        => /\ failedUnits # {} => (Len(ret.results) = 0 /\ ret.err = ErrMulti)
           /\ failedUnits = {} =>
                  /\ Len(ret.results) = Cardinality(PrepareQueries(params))
                  /\ resultNames = PrepareQueries(params)
                  /\ ret.err = NoErr

\* C6 witness: a row-oriented call returned after one unit failed and
\* another succeeded.
C6_Witness ==
    /\ returned /\ onBuilderList /\ prepared = "ok"
    /\ failedUnits # {}
    /\ succeededUnits # {}

\* C7: when PrepareQueries fails no unit is started and no backend call is
\* made, and the call returns no results, a nil error map and the
\* translation error.
C7_TranslationAborts ==
    prepared = "failed"
        => /\ startedUnits = {}
           /\ \A n \in Names : queriesExecuted[n] = << >> /\ sent[n] = << >>
           /\ returned
           /\ Len(ret.results) = 0
           /\ ret.errQueriesByName.isNil
           /\ ret.err = ErrTranslation

\* C7 witness: a row-oriented call whose translation failed.
C7_Witness == returned /\ onBuilderList /\ prepared = "failed"

\* C8: on the Builder series-oriented path every entry of the returned
\* error map is a resource-limit error, and the overall error is non-nil
\* whenever a unit failed.
C8_BuilderErrorExposure ==
    (returned /\ onBuilderSeries)
        => /\ \A n \in errNames :
                  IsResourceLimitError(ret.errQueriesByName.byName[n])
           /\ failedUnits # {} => ret.err # NoErr

\* C8 witness: a series-oriented Builder call whose only failures were
\* internal: the map is empty and the overall error is set.
C8_Witness ==
    /\ returned /\ onBuilderSeries
    /\ failedUnits # {}
    /\ errNames = {}
    /\ ret.err # NoErr

\* The error the unit of n reported.
sentErr(n) == sent[n][1].Err

\* Every failed unit's error is in the returned error map.
allErrorsExposed ==
    \A n \in failedUnits :
        n \in errNames /\ ret.errQueriesByName.byName[n] = sentErr(n)

\* C9 as stated: on the PromQL, raw-SQL and Builder row-oriented paths the
\* error of every failed sub-query is in the returned error map.
C9_NoFilterOffBuilderSeries ==
    (returned /\ (onProm \/ onClickHouse \/ (onBuilderList /\ prepared = "ok")))
        => allErrorsExposed

\* C9 amended: that holds on the PromQL and raw-SQL paths; on the Builder
\* row-oriented path, as on the series-oriented one, only resource-limit
\* errors stay in the map and internal errors are removed.
C9_FilterOnBuilderOnly ==
    /\ (returned /\ (onProm \/ onClickHouse)) => allErrorsExposed
    /\ (returned /\ onBuilderList)
           => /\ \A n \in errNames :
                     IsResourceLimitError(ret.errQueriesByName.byName[n])
              /\ \A n \in failedUnits :
                     sentErr(n).kind = "internal" => n \notin errNames

\* C9 witness: a PromQL call returned with an internal error in its map.
C9_Witness ==
    /\ returned /\ onProm
    /\ \E n \in errNames : ret.errQueriesByName.byName[n] = Error("internal")

\* The backend calls of n that failed.
failedCalls(n) ==
    {i \in 1..Len(queriesExecuted[n]) : queriesExecuted[n][i].err # NoErr}

\* C10: on the PromQL path a failed fetch of a miss window ends the
\* sub-query: it is the unit's last backend call, the unit never stores, and
\* it reports that error with no series; the call returns the name in the
\* error map and not in the results.
C10_FetchFailureAborts ==
    onProm =>
        \A n \in Names : \A i \in failedCalls(n) :
            /\ i = Len(queriesExecuted[n])
            /\ unit[n].pc = "done"
            /\ \A k \in 1..Len(cacheCalls[n]) : cacheCalls[n][k] # "Store"
            /\ sent[n] = << channelResult(queriesExecuted[n][i].err, n, << >>, << >>) >>
            /\ returned => (n \in errNames /\ n \notin resultNames)

\* C10 witness: a unit that held decodable cached data and had two misses to
\* fetch failed on the first, and the call returned.
C10_Witness ==
    /\ returned /\ onProm
    /\ \E n \in Names :
           /\ unit[n].pc = "done"
           /\ failedCalls(n) = {1}
           /\ Len(unit[n].misses) = 2
           /\ unit[n].cachedData.kind = "json"

\* The PromQL goroutine of n is past its cache lookup.
lookedUp(n) == unit[n].pc \in {"fetch", "store", "done"}

\* The calls of kind on the cache the goroutine of n made.
cacheCallsOf(n, kind) ==
    {k \in 1..Len(cacheCalls[n]) : cacheCalls[n][k] = kind}

\* cache.Retrieve was called for n and left it without cached data: an
\* error, or no entry under the key.
retrievedNothing(n) ==
    /\ lookedUp(n)
    /\ cacheCallsOf(n, "Retrieve") # {}
    /\ unit[n].cachedData = NilBytes

\* The Result of n in the returned results.
resultsOf(n) ==
    {k \in 1..Len(ret.results) : ret.results[k].QueryName = n}

\* C11: on the PromQL path a Cache.Retrieve error or miss never fails the
\* sub-query: its only backend call is one fetch of the whole window
\* [start, end], it fails only if that fetch fails, and otherwise it reports
\* and returns exactly the fetched series, with no entry in the error map.
C11_RetrieveFailureIsMiss ==
    onProm =>
        \A n \in Names : retrievedNothing(n) =>
            /\ \A k \in 1..Len(sent[n]) :
                   sent[n][k].Err # NoErr =>
                       \E i \in failedCalls(n) :
                           queriesExecuted[n][i].err = sent[n][k].Err
            /\ unit[n].misses = << missInterval(params.Start, params.End) >>
            /\ Len(queriesExecuted[n]) <= 1
            /\ \A i \in 1..Len(queriesExecuted[n]) :
                   /\ queriesExecuted[n][i].query.Start = params.Start
                   /\ queriesExecuted[n][i].query.End = params.End
            /\ (unit[n].pc \in {"store", "done"} /\ failedCalls(n) = {}) =>
                   sent[n] = << channelResult(NoErr, n,
                                   execPromQuery(n, params.Start, params.End), << >>) >>
            /\ (returned /\ failedCalls(n) = {}) =>
                   /\ n \notin errNames
                   /\ Cardinality(resultsOf(n)) = 1
                   /\ \A k \in resultsOf(n) :
                          ret.results[k].Series =
                              execPromQuery(n, params.Start, params.End)

\* C11 witness: a call returned the fetched series of a sub-query whose
\* cache.Retrieve answered an error although the cache held an entry (which
\* it still holds, the later store having failed).
C11_Witness ==
    /\ returned /\ onProm
    /\ \E n \in Names :
           /\ retrievedNothing(n)
           /\ cache[params.CacheKeys[n]] # NilBytes
           /\ cache[params.CacheKeys[n]] # Marshal(unit[n].mergedSeries)
           /\ resultsOf(n) # {}
           /\ n \notin errNames

\* C12: on the PromQL path a sub-query of a request with noCache set, or
\* without a cache key, never calls Cache.Retrieve nor Cache.Store; a sibling
\* with a key (and noCache unset) retrieves once at its start and stores once
\* it has reported a result that holds fetched series.
C12_CachingPerSubQuery ==
    onProm =>
        \A n \in Names :
            /\ (params.NoCache \/ n \notin DOMAIN params.CacheKeys)
                   => cacheCalls[n] = << >>
            /\ (~params.NoCache /\ n \in DOMAIN params.CacheKeys /\ lookedUp(n))
                   => /\ Cardinality(cacheCallsOf(n, "Retrieve")) = 1
                      /\ cacheCalls[n][1] = "Retrieve"
                      /\ (/\ unit[n].pc = "done"
                          /\ failedCalls(n) = {}
                          /\ Len(unit[n].missedSeries) > 0)
                             => Cardinality(cacheCallsOf(n, "Store")) = 1

\* C12 witness: in one returned call B, without a key, made no cache call
\* and fetched, while A retrieved and stored.
C12_Witness ==
    /\ returned /\ onProm
    /\ ~params.NoCache
    /\ "B" \notin DOMAIN params.CacheKeys
    /\ cacheCalls["B"] = << >>
    /\ Len(queriesExecuted["B"]) > 0
    /\ cacheCalls["A"] = << "Retrieve", "Store" >>

\* C13: on the PromQL path a Cache.Store failure never fails the sub-query:
\* the successful result is on the channel before the store is attempted,
\* no step of the store adds to or changes what the unit reported, and the
\* call returns that result whether the store succeeded or failed.
C13_StoreFailureHarmless ==
    onProm =>
        \A n \in Names :
            (unit[n].pc = "store" \/ cacheCallsOf(n, "Store") # {}) =>
                /\ sent[n] = << channelResult(NoErr, n, unit[n].mergedSeries, << >>) >>
                /\ unit[n].mergedSeries = promMerged(unit[n])
                /\ returned =>
                       /\ n \notin errNames
                       /\ Cardinality(resultsOf(n)) = 1
                       /\ \A k \in resultsOf(n) :
                              ret.results[k].Series = unit[n].mergedSeries

\* C13 witness: a call returned the result of a sub-query whose store
\* failed: the cache still holds the entry it held before.
C13_Witness ==
    /\ returned /\ onProm
    /\ \E n \in Names :
           /\ cacheCallsOf(n, "Store") # {}
           /\ cache[params.CacheKeys[n]] # Marshal(unit[n].mergedSeries)
           /\ resultsOf(n) # {}
           /\ ret.err = NoErr

\* The series the only backend call of n fetched.
freshSeries(n) ==
    execPromQuery(n, queriesExecuted[n][1].query.Start, queriesExecuted[n][1].query.End)

\* The goroutine of n reported a result after a reconciliation that set
\* replace.
replaced(n) ==
    /\ unit[n].pc \in {"store", "done"}
    /\ unit[n].replaceCachedData
    /\ failedCalls(n) = {}

\* With replace set, the result reported and returned for n, and the series
\* it is about to store, are the fetched series and nothing else.
replacedResultIsFresh ==
    onProm =>
        \A n \in Names : replaced(n) =>
            /\ Len(queriesExecuted[n]) = 1
            /\ sent[n] = << channelResult(NoErr, n, freshSeries(n), << >>) >>
            /\ unit[n].mergedSeries = freshSeries(n)
            /\ returned =>
                   \A k \in resultsOf(n) : ret.results[k].Series = freshSeries(n)

\* With replace set, a store that changes the entry of n writes the payload
\* of the fetched series.
replacedStoreIsFresh ==
    \A n \in Names :
        (/\ onProm /\ unit[n].pc = "store" /\ replaced(n)
         /\ cache'[params.CacheKeys[n]] # cache[params.CacheKeys[n]]) =>
            cache'[params.CacheKeys[n]] = Marshal(freshSeries(n))

\* C14: on the PromQL path, when the reconciler sets replace, the result
\* returned for the sub-query and the payload stored in the cache consist of
\* the freshly fetched series only: no point of the previous cache entry is
\* in either.
C14_ReplaceUsesFreshOnly ==
    []replacedResultIsFresh /\ [][replacedStoreIsFresh]_vars

\* C14 witness: a call returned and stored the result of a sub-query whose
\* cache entry decoded to series disjoint from the window, so that replace
\* was set.
C14_Witness ==
    /\ returned /\ onProm
    /\ \E n \in Names :
           /\ replaced(n)
           /\ unit[n].cachedData.kind = "json"
           /\ Len(unit[n].cachedData.json) > 0
           /\ cache[params.CacheKeys[n]] = Marshal(freshSeries(n))
           /\ cache[params.CacheKeys[n]] # unit[n].cachedData
           /\ resultsOf(n) # {}

\* The series of X, each with its points sorted by timestamp and
\* de-duplicated.
normalized(X) ==
    {[X[i] EXCEPT !.Points = RemoveDuplicatePoints(SortPoints(@))] : i \in 1..Len(X)}

\* C15: for every series list X, mergeSerieses(X, []) and
\* mergeSerieses([], X) return the same set of series: the series of X, each
\* sorted by timestamp and de-duplicated, also when X holds two series with
\* the same label set.
C15_MergeIdempotence ==
    (mgOut.done /\ mgIn.missedSeries = << >>) =>
        /\ Range(mgOut.mergedSeries) = Range(mgOut.swappedSeries)
        /\ Range(mgOut.mergedSeries) = normalized(mgIn.cachedSeries)
        /\ Len(mgOut.mergedSeries) = Cardinality(normalized(mgIn.cachedSeries))
        /\ Len(mgOut.swappedSeries) = Cardinality(normalized(mgIn.cachedSeries))

\* The label sets of a series list, and the timestamps it holds under one.
labelSets(X) == {X[i].Labels : i \in 1..Len(X)}

timestampsOf(X, l) ==
    UNION {{X[i].Points[k].Timestamp : k \in 1..Len(X[i].Points)} :
              i \in {j \in 1..Len(X) : X[j].Labels = l}}

\* C16: mergeSerieses returns exactly one series per distinct label set of
\* its inputs; for a label set in both cached and missed, the timestamps of
\* that series are the union of both inputs' timestamps, ascending, none
\* twice.
C16_MergeCorrectness ==
    mgOut.done =>
        LET merged == mgOut.mergedSeries
            inputs == mgIn.cachedSeries \o mgIn.missedSeries
        IN /\ \A l \in labelSets(inputs) :
                  Cardinality({k \in 1..Len(merged) : merged[k].Labels = l}) = 1
           /\ labelSets(merged) \subseteq labelSets(inputs)
           /\ \A l \in labelSets(mgIn.cachedSeries) \cap labelSets(mgIn.missedSeries) :
                  \A k \in 1..Len(merged) : merged[k].Labels = l =>
                      /\ timestampsOf(<< merged[k] >>, l) = timestampsOf(inputs, l)
                      /\ \A i \in 1..(Len(merged[k].Points) - 1) :
                             merged[k].Points[i].Timestamp
                                 < merged[k].Points[i + 1].Timestamp

\* C17: two label maps get the same signature from labelsToString if and
\* only if they are equal as mappings.
C17_SignatureInjective ==
    lbOut.done => ((lbOut.a = lbOut.b) <=> (lbIn.a = lbIn.b))

\* What is left of points once the points with a negative timestamp are
\* taken out, the others staying in their order.
RECURSIVE withoutNegatives(_)
withoutNegatives(points) ==
    IF points = << >> THEN << >>
    ELSE IF Head(points).Timestamp < 0 THEN withoutNegatives(Tail(points))
    ELSE << Head(points) >> \o withoutNegatives(Tail(points))

\* series is the answer result of the reader with exactly the points of
\* negative timestamp removed from each of its series.
filteredAnswer(series, result) ==
    /\ Len(series) = Len(result)
    /\ \A i \in 1..Len(result) :
           /\ series[i].Labels = result[i].Labels
           /\ series[i].Points = withoutNegatives(result[i].Points)

executorPcs(p) ==
    IF p.QueryType = "promql" THEN {"start", "fetch", "store"}
    ELSE IF p.QueryType = "clickhouse_sql" THEN {"exec"}
    ELSE IF p.QueryType = "builder"
    THEN (IF p.PanelType \in {"list", "trace"} THEN {"list"} ELSE {"build"})
    ELSE {}

\* The overall errors the executor of p can return.
executorErrs(p) ==
    IF p.QueryType = "promql" THEN {ErrProm}
    ELSE IF p.QueryType = "clickhouse_sql" THEN {ErrClickHouse}
    ELSE IF p.QueryType = "builder"
    THEN (IF p.PanelType \in {"list", "trace"}
          THEN {ErrMulti, ErrTranslation} ELSE {ErrBuilder})
    ELSE {ErrInvalidQueryType}

\* C19: QueryRange runs one executor per call, chosen by queryType (and by
\* panelType for Builder); the raw-SQL and the Builder row-oriented paths
\* never call the cache, the raw-SQL path makes exactly one backend call per
\* enabled sub-query, and an unknown queryType returns 'invalid query type'
\* with no results and no backend call.
C19_Dispatch ==
    pc # "idle" =>
        /\ \A n \in Names : unit[n].pc \in executorPcs(params) \cup {"none", "done"}
        /\ returned =>
               ret.err \in executorErrs(params)
                               \cup {NoErr, ErrValueQueries, ErrValueSeries}
        /\ (onClickHouse \/ onBuilderList) =>
               \A n \in Names : cacheCalls[n] = << >>
        /\ (onClickHouse /\ returned) =>
               \A n \in Names :
                   Len(queriesExecuted[n]) = IF n \in enabledNames THEN 1 ELSE 0
        /\ (/\ hasCompositeQuery(params)
            /\ params.QueryType \notin {"builder", "promql", "clickhouse_sql"}) =>
               /\ returned
               /\ ret.err = ErrInvalidQueryType
               /\ Len(ret.results) = 0
               /\ \A n \in Names :
                      queriesExecuted[n] = << >> /\ unit[n].pc = "none"

\* C19 witness: a call with an unknown query type and two enabled
\* sub-queries returned.
C19_Witness ==
    /\ returned
    /\ params.QueryType = "unknown"
    /\ Cardinality(enabledNames) = 2
    /\ ret.err = ErrInvalidQueryType

\* C20: on the PromQL and raw-SQL paths, after QueryRange returns, the name
\* of every enabled sub-query is either once in the results or in the error
\* map, never in both, and no other name is in either.
C20_ResultOrError ==
    (returned /\ (onProm \/ onClickHouse)) =>
        /\ \A n \in enabledNames :
               \/ Cardinality(resultsOf(n)) = 1 /\ n \notin errNames
               \/ resultsOf(n) = {} /\ n \in errNames
        /\ resultNames \cup errNames \subseteq enabledNames
        /\ Len(ret.results) = Cardinality(resultNames)

\* C20 witness: a PromQL call returned with A in the results and B in the
\* error map.
C20_Witness ==
    /\ returned /\ onProm
    /\ enabledNames = {"A", "B"}
    /\ resultNames = {"A"}
    /\ errNames = {"B"}

\* The sub-queries of the call that are marked disabled.
disabledNames == {n \in DOMAIN params.Queries : params.Queries[n].Disabled}

\* C21: on the Builder series, PromQL and raw-SQL paths no unit of work is
\* started for a disabled sub-query: it is never executed against the
\* backend and it has neither a Result nor an entry in the error map.
C21_DisabledNeverRuns ==
    (pc \in {"running", "returned"} /\ (onBuilderSeries \/ onProm \/ onClickHouse)) =>
        \A n \in disabledNames :
            /\ unit[n].pc = "none"
            /\ queriesExecuted[n] = << >>
            /\ n \notin resultNames
            /\ n \notin errNames

\* C22: on the PromQL and raw-SQL paths with a panel type other than Value,
\* the overall error QueryRange returns is non-nil exactly when the error
\* map has an entry, which is exactly when some sub-query unit failed.
C22_ErrorIffMapNonEmpty ==
    (returned /\ (onProm \/ onClickHouse) /\ params.PanelType # "value") =>
        /\ (ret.err # NoErr) <=> (errNames # {})
        /\ (errNames # {}) <=> (failedUnits # {})
        /\ ret.err \in {NoErr, IF onProm THEN ErrProm ELSE ErrClickHouse}

\* A raw-SQL call returned with one unit failed next to one that succeeded.
C22_Witness ==
    /\ returned
    /\ onClickHouse
    /\ params.PanelType # "value"
    /\ failedUnits # {}
    /\ succeededUnits # {}
    /\ ret.err = ErrClickHouse
    /\ errNames = failedUnits

\* roundedNow - fluxInterval of a direct call: the last instant whose cached
\* points count as coverage.
rcFluxBoundary == roundedMillis(rcIn.endMillis, rcIn.step) - rcIn.fluxMs

\* C23: when the request ends after roundedNow - fluxInterval, the misses
\* cover every millisecond of [start, end] later than roundedNow -
\* fluxInterval, whatever the cache holds.
C23_FluxRefetch ==
    (rcOut.done /\ rcIn.end > rcFluxBoundary) =>
        \A t \in rcIn.start..rcIn.end :
            t > rcFluxBoundary => t \in covered(rcOut.misses)

\* The sub-queries whose goroutine holds cached bytes that do not decode:
\* none at all, or bytes that are not the JSON of a series list.
undecodable(n) == lookedUp(n) /\ Unmarshal(unit[n].cachedData, << >>).err

\* C24: when the cached payload does not deserialize (absent, empty or
\* corrupt), querier.findMissingTimeRanges answers the single miss
\* {start, end} and replace = true, and nothing is reported as an error.
C24_UndecodableIsWholeMiss ==
    onProm =>
        \A n \in Names : undecodable(n) =>
            /\ unit[n].misses = << missInterval(params.Start, params.End) >>
            /\ unit[n].replaceCachedData
            /\ (unit[n].pc = "fetch" /\ unit[n].next = 1) => sent[n] = << >>
            /\ \A k \in 1..Len(sent[n]) :
                   sent[n][k].Err # NoErr => failedCalls(n) # {}

\* A call returned a result for a sub-query whose cached bytes were corrupt.
C24_Witness ==
    /\ returned /\ onProm
    /\ \E n \in Names :
           /\ undecodable(n)
           /\ unit[n].cachedData = Corrupt
           /\ unit[n].replaceCachedData
           /\ resultsOf(n) # {}

\* Points in strictly ascending order of time: no timestamp twice.
strictlyAscending(points) ==
    \A i \in 1..(Len(points) - 1) : points[i].Timestamp < points[i + 1].Timestamp

\* C25: every series of a Result the PromQL path returns has its points in
\* strictly ascending order of time, in whatever order the backend answers,
\* on the merge path and on the replace path.
C25_ResultPointsAscending ==
    (returned /\ onProm) =>
        \A k \in 1..Len(ret.results) :
            \A i \in 1..Len(ret.results[k].Series) :
                strictlyAscending(ret.results[k].Series[i].Points)

\* An object in memory: what it is and, for a cache entry or a series set,
\* whose it is.
object(what, key) == [what |-> what, key |-> key]

\* The objects other than the result channel that the goroutine of n has
\* read or written so far: the cache entry under its key, the series it
\* fetched and merges in place (in testing mode the querier's
\* returnedSeries, handed to every goroutine), and in testing mode the
\* slices the querier logs each backend query to (lines 125-126).
touched(n) ==
    (IF cacheCalls[n] # << >> THEN {object("cache entry", params.CacheKeys[n])} ELSE {})
    \cup (IF queriesExecuted[n] # << >> /\ testing
          THEN {object("querier.queriesExecuted", "")}
               \cup (IF onProm THEN {object("querier.timeRanges", "")} ELSE {})
          ELSE {})
    \cup (IF \E i \in 1..Len(queriesExecuted[n]) : queriesExecuted[n][i].err = NoErr
          THEN {IF testing THEN object("querier.returnedSeries", "")
                ELSE object("series set", n)}
          ELSE {})

\* C26: during one QueryRange call no two sub-query tasks touch the same
\* in-memory data: each touches only its own cache key and its own series
\* set, and only the result channel is written by more than one task.
C26_TasksShareNothing ==
    pc \in {"running", "returned"} =>
        \A n, m \in Names : n # m => touched(n) \cap touched(m) = {}

\* The resource-typed items of the filter set, in item order.
resourceItems == SelectSeq(fsIn.Items, LAMBDA item : item.Key.Type = "resource")

\* The value the filters of an item are built from: none under exists and
\* not-exists, the cast value otherwise.
filterValueOf(item) ==
    IF ToLower(item.Operator) \in {"exists", "nexists"} THEN NilValue
    ELSE ValidateAndCastValue(item.Value, item.Key.DataType).value

\* The attribute filter and the index filter of an item.
attributeFilterOf(item) ==
    LET op == ToLower(item.Operator)
    IN buildResourceFilter(IF op \in DOMAIN logOperators THEN logOperators[op] ELSE "",
                           ToLower(item.Key.Key), op, filterValueOf(item))

indexFilterOf(item) ==
    buildResourceIndexFilter(ToLower(item.Key.Key), ToLower(item.Operator),
                             filterValueOf(item))

\* Two conditions per item: its attribute filter, then its index filter.
RECURSIVE twoPerItem(_)
twoPerItem(items) ==
    IF items = << >> THEN << >>
    ELSE << attributeFilterOf(Head(items)), indexFilterOf(Head(items)) >>
         \o twoPerItem(Tail(items))

\* The same without the index filters that are the empty string.
RECURSIVE nonEmptyFilters(_)
nonEmptyFilters(items) ==
    IF items = << >> THEN << >>
    ELSE << attributeFilterOf(Head(items)) >>
         \o (IF indexFilterOf(Head(items)) # EmptyString
             THEN << indexFilterOf(Head(items)) >> ELSE << >>)
         \o nonEmptyFilters(Tail(items))

\* The items the function refuses: a data type other than string under an
\* operator other than in / not-in, a value that does not cast (not looked
\* at under exists / not-exists), or an operator that is no log operator.
refused(item) ==
    LET op == ToLower(item.Operator)
    IN \/ item.Key.DataType # "string" /\ op \notin {"in", "nin"}
       \/ op \notin {"exists", "nexists"}
          /\ ValidateAndCastValue(item.Value, item.Key.DataType).err
       \/ op \notin DOMAIN logOperators

\* C27 as stated: for every filter set the function returns, without error,
\* two conditions per resource-typed item (attribute filter, then index
\* filter), in item order, and nothing for the other items.
C27_TwoConditionsPerResourceItem ==
    fsOut.done =>
        /\ fsOut.err = ""
        /\ fsOut.conditions = twoPerItem(resourceItems)

\* C27: the function returns an error and no conditions exactly when it
\* refuses a resource-typed item; otherwise it returns no error and, in item
\* order, the attribute filter of every resource-typed item followed by its
\* index filter unless that is empty.  Items of other types contribute
\* nothing and are never refused.
C27_ResourceItemFilters ==
    fsOut.done =>
        /\ (fsOut.err # "") <=> (\E i \in 1..Len(resourceItems) : refused(resourceItems[i]))
        /\ fsOut.err # "" => fsOut.conditions = << >>
        /\ fsOut.err = "" => fsOut.conditions = nonEmptyFilters(resourceItems)
        /\ resourceItems = << >> => fsOut.conditions = << >> /\ fsOut.err = ""

\* A tag item that would be refused as a resource item, then a resource
\* item: the call gave the two conditions of the resource item and no error.
C27_Witness ==
    /\ fsOut.done
    /\ fsOut.err = ""
    /\ Len(fsIn.Items) = 2
    /\ fsIn.Items[1].Key.Type = "tag" /\ refused(fsIn.Items[1])
    /\ fsIn.Items[2].Key.Type = "resource"
    /\ fsOut.conditions = twoPerItem(resourceItems)
    /\ Len(fsOut.conditions) = 2

\* The cached range a direct call compares with the request: cachedStart
\* and the capped cachedEnd.
rcCached ==
    LET r == cachedRange(rcIn.seriesList)
    IN [start |-> r.cachedStart,
        end |-> cappedCachedEnd(r.cachedEnd, rcIn.endMillis, rcIn.step, rcIn.fluxMs)]

\* The first of the five cases, in their priority order, that [cs, ce] meets
\* against [s, e].
referenceCase(s, e, cs, ce) ==
    CASE cs >= s /\ ce <= e -> "Subset"
      [] ~(cs >= s /\ ce <= e) /\ cs <= s /\ ce >= e -> "Superset"
      [] ~(cs >= s /\ ce <= e) /\ ~(cs <= s /\ ce >= e) /\ cs <= s /\ ce >= s -> "Left overlap"
      [] ~(cs >= s /\ ce <= e) /\ ~(cs <= s /\ ce >= e) /\ ~(cs <= s /\ ce >= s)
         /\ cs <= e /\ ce >= e -> "Right overlap"
      [] OTHER -> "Disjoint"

\* The intervals the reference yields for a case.
referenceIntervals(case, s, e, cs, ce) ==
    CASE case = "Subset" -> << missInterval(s, cs - 1), missInterval(ce + 1, e) >>
      [] case = "Superset" -> << >>
      [] case = "Left overlap" -> << missInterval(ce + 1, e) >>
      [] case = "Right overlap" -> << missInterval(s, cs - 1) >>
      [] OTHER -> << missInterval(s, e) >>

C29_CachedRangeIsMinMax ==
    rcOut.done =>
        LET r  == cachedRange(rcIn.seriesList)
            ts == UNION {{rcIn.seriesList[i].Points[j].Timestamp :
                              j \in 1..Len(rcIn.seriesList[i].Points)} :
                            i \in 1..Len(rcIn.seriesList)}
        IN IF ts = {} THEN r.cachedStart = 0 /\ r.cachedEnd = 0
           ELSE /\ r.cachedStart \in ts /\ \A t \in ts : r.cachedStart <= t
                /\ r.cachedEnd \in ts /\ \A t \in ts : t <= r.cachedEnd

\* The goroutine of n reported a result: none of its backend calls failed.
promSucceeded(n) == unit[n].pc \in {"store", "done"} /\ failedCalls(n) = {}

\* C30: on the PromQL path a sub-query issues its backend range queries one
\* per miss of the reconciler, in the order of the misses, each for exactly
\* that miss's [start, end]; one that succeeds has issued exactly one per
\* miss, hence none at all when the cache covers the request.
C30_OneQueryPerMiss ==
    onProm =>
        \A n \in Names : lookedUp(n) =>
            /\ Len(queriesExecuted[n]) <= Len(unit[n].misses)
            /\ \A i \in 1..Len(queriesExecuted[n]) :
                   /\ queriesExecuted[n][i].query.Query = n
                   /\ queriesExecuted[n][i].query.Start = unit[n].misses[i].start
                   /\ queriesExecuted[n][i].query.End = unit[n].misses[i].end
            /\ promSucceeded(n) => Len(queriesExecuted[n]) = Len(unit[n].misses)
            /\ (promSucceeded(n) /\ unit[n].misses = << >>) => queriesExecuted[n] = << >>

\* A call returned the result of a sub-query that had two misses around its
\* cached range and fetched each of them, the earlier one first.
C30_Witness ==
    /\ returned /\ onProm
    /\ \E n \in Names :
           /\ promSucceeded(n)
           /\ Len(unit[n].misses) = 2
           /\ Len(queriesExecuted[n]) = 2
           /\ queriesExecuted[n][1].query.End < queriesExecuted[n][2].query.Start
           /\ resultsOf(n) # {}

\* The goroutine of n ended, and the backend calls of n that answered series.
ended(n) == unit[n].pc = "done"

fetchedCalls(n) ==
    {i \in 1..Len(queriesExecuted[n]) : queriesExecuted[n][i].err = NoErr}

\* C31 as stated: on the PromQL path, with caching enabled and a key present,
\* a sub-query that has ended called Cache.Store once if at least one of its
\* miss windows was fetched successfully, and not at all if none was.
C31_StoreWheneverFetched ==
    onProm =>
        \A n \in Names :
            (ended(n) /\ useCache(n)) =>
                Cardinality(cacheCallsOf(n, "Store")) =
                    (IF fetchedCalls(n) # {} THEN 1 ELSE 0)

\* The sub-queries that called Cache.Store are those that use the cache,
\* reported a result and fetched at least one series; each called it once.
storesIffFetchedSeries ==
    onProm =>
        \A n \in Names :
            /\ Cardinality(cacheCallsOf(n, "Store")) <= 1
            /\ cacheCallsOf(n, "Store") # {} =>
                   /\ useCache(n) /\ promSucceeded(n)
                   /\ Len(unit[n].missedSeries) > 0
            /\ (/\ ended(n) /\ useCache(n) /\ promSucceeded(n)
                /\ Len(unit[n].missedSeries) > 0) =>
                   Cardinality(cacheCallsOf(n, "Store")) = 1
            /\ (returned /\ cacheCallsOf(n, "Store") # {}) =>
                   \E k \in resultsOf(n) : ret.results[k].Series = sent[n][1].Series

\* A Cache.Store call of n changes no entry but the one under the key of n,
\* and that one to the payload of the series n reported.
storeWritesReported ==
    \A n \in Names :
        (onProm /\ Len(cacheCalls'[n]) > Len(cacheCalls[n])
         /\ cacheCalls'[n][Len(cacheCalls'[n])] = "Store") =>
            \A key \in DOMAIN cache :
                cache'[key] # cache[key] =>
                    /\ key = params.CacheKeys[n]
                    /\ cache'[key] = Marshal(sent[n][1].Series)

\* C31: on the PromQL path, with caching enabled and a key present,
\* Cache.Store is called (at most once per sub-query, under that sub-query's
\* own key) exactly when the sub-query reported a result and its fetches
\* answered at least one series; the stored payload is the serialization of
\* exactly the series set returned to the caller.  It is not called when a
\* fetch failed, when nothing was fetched, or when the fetches answered no
\* series.
C31_StoreIffFetchedSeries ==
    []storesIffFetchedSeries /\ [][storeWritesReported]_vars

\* C31 witness: a call returned in which one sub-query using the cache
\* stored after fetching series, another fetched one miss and failed on the
\* next without storing.
C31_Witness ==
    /\ returned /\ onProm
    /\ \E n \in Names :
           /\ useCache(n) /\ promSucceeded(n)
           /\ cacheCallsOf(n, "Store") # {}
    /\ \E n \in Names :
           /\ useCache(n) /\ fetchedCalls(n) # {} /\ failedCalls(n) # {}
           /\ cacheCallsOf(n, "Store") = {}

\* The executors the claims about the PromQL, raw-SQL and row-oriented
\* Builder paths speak of.
onChannelPaths == onProm \/ onClickHouse \/ onBuilderList

\* The capacity the executor gives its result channel (lines 353, 439,
\* 486): the number of sub-queries, disabled ones included.
channelCapacity == Cardinality(DOMAIN params.Queries)

\* Every goroutine has written at most one result, one that ended exactly
\* one, one that was not started none; the channel never holds more than
\* its capacity.
oneResultPerUnit ==
    (onChannelPaths /\ pc # "idle") =>
        /\ \A n \in Names :
               /\ Len(sent[n]) <= 1
               /\ ended(n) => Len(sent[n]) = 1
               /\ unit[n].pc = "none" => sent[n] = << >>
        /\ Len(channelResults) <= channelCapacity
        /\ returned => \A n \in Names : unit[n].pc \in {"none", "done"}

\* The channel is closed and drained in a step taken when every goroutine
\* has ended, its store included, and nothing is written afterwards, until
\* the next call makes a channel of its own.
drainAfterJoin ==
    onChannelPaths =>
        /\ (pc = "running" /\ pc' = "returned") =>
               /\ \A n \in Names : unit[n].pc \in {"none", "done"}
               /\ \A n \in Names : cacheCalls'[n] = cacheCalls[n]
        /\ (pc = "returned" /\ pc' = "returned" /\ calls' = calls) =>
               /\ sent' = sent
               /\ channelResults' = channelResults
               /\ unit' = unit

\* C32: on the PromQL, raw-SQL and row-oriented Builder paths every spawned
\* unit writes exactly one tagged result on every execution path; the queued
\* results never exceed the channel capacity, nothing is written after the
\* channel is closed, and the drain starts only after every unit, its cache
\* store included, has finished.
C32_OneResultPerUnit == []oneResultPerUnit /\ [][drainAfterJoin]_vars

\* C32 witness: a PromQL call returned whose two goroutines each wrote one
\* result, one of them an error, the other a result followed by a store.
C32_Witness ==
    /\ returned /\ onProm
    /\ \A n \in Names : Len(sent[n]) = 1
    /\ \E n \in Names : sentErr(n) # NoErr
    /\ \E n \in Names : sentErr(n) = NoErr /\ cacheCallsOf(n, "Store") # {}

\* C33: under fair scheduling, with every cache and backend call returning,
\* every QueryRange call on the PromQL, raw-SQL and row-oriented Builder
\* paths eventually returns, whatever the number of sub-queries, the
\* disabled ones among them and the units that fail.
C33_EveryCallReturns == (pc = "running" /\ onChannelPaths) ~> returned

\* C33 witness: a call with one disabled sub-query returned after its only
\* goroutine failed.
C33_Witness ==
    /\ returned /\ onChannelPaths
    /\ \E n \in DOMAIN params.Queries : params.Queries[n].Disabled /\ unit[n].pc = "none"
    /\ \E n \in Names : ended(n) /\ sentErr(n) # NoErr

\* C34: every miss findMissingTimeRanges returns lies inside the requested
\* window, start <= miss.start < miss.end <= end, whatever the cached series,
\* those whose points all fall inside the flux interval included.
C34_MissesInsideWindow ==
    rcOut.done =>
        \A i \in 1..Len(rcOut.misses) :
            /\ rcIn.start <= rcOut.misses[i].start
            /\ rcOut.misses[i].start < rcOut.misses[i].end
            /\ rcOut.misses[i].end <= rcIn.end

\* C35: every point of every series of a result the PromQL path returns has
\* a timestamp inside the requested window [start, end], also when the cache
\* entry covers a wider window than the request.
C35_ResultPointsInsideWindow ==
    promReturned =>
        \A k \in 1..Len(ret.results) :
            \A s \in 1..Len(ret.results[k].Series) :
                \A i \in 1..Len(ret.results[k].Series[s].Points) :
                    LET ts == ret.results[k].Series[s].Points[i].Timestamp
                    IN params.Start <= ts /\ ts <= params.End

\* What the backend answers to the range queries of misses from index i, in
\* order: the series a PromQL goroutine of n has fetched when none fails.
RECURSIVE fetchAll(_, _, _)
fetchAll(n, misses, i) ==
    IF i > Len(misses) THEN << >>
    ELSE execPromQuery(n, misses[i].start, misses[i].end) \o fetchAll(n, misses, i + 1)

\* The series sub-query n yields given what the cache and the backend
\* answered to it, whatever the other goroutines did: on the PromQL path the
\* merge of the cached bytes it retrieved with the backend's series for its
\* misses, on the raw-SQL path the series the reader answered.
answerOf(n) ==
    IF onProm
    THEN LET m == qFindMissingTimeRanges(params.Start, params.End, params.Step,
                      unit[n].cachedData, querier.fluxInterval, now)
         IN promMerged([cachedData |-> unit[n].cachedData,
                        replaceCachedData |-> m.replaceCacheData,
                        missedSeries |-> fetchAll(n, m.misses, 1)])
    ELSE sent[n][1].Series

\* The sub-queries one of whose backend calls answered an error, and that
\* error.
refusedNames == {n \in startedUnits : failedCalls(n) # {}}

refusalOf(n) == queriesExecuted[n][CHOOSE i \in failedCalls(n) : TRUE].err

\* The error QueryRange returns is nil, given the answers alone.
answersGiveNoError ==
    /\ refusedNames = {}
    /\ params.PanelType = "value" =>
           /\ ~(Cardinality(startedUnits) > 1 /\ EnabledQueries(params) > 1)
           /\ \A n \in startedUnits :
                  Cardinality(startedUnits) = 1 => Len(answerOf(n)) <= 1

\* C36: on the PromQL and raw-SQL paths, for fixed answers of the cache and
\* of the backend, the results as a set of (name, series), the error map and
\* whether the error is nil are the same under every interleaving of the
\* goroutines: each is what the answers alone determine.
C36_OutcomeIndependentOfOrder ==
    (returned /\ (onProm \/ onClickHouse)) =>
        /\ {<< ret.results[k].QueryName, ret.results[k].Series >> :
                k \in 1..Len(ret.results)}
               = {<< n, answerOf(n) >> : n \in startedUnits \ refusedNames}
        /\ Len(ret.results) = Cardinality(startedUnits \ refusedNames)
        /\ ret.errQueriesByName = ErrMap([n \in refusedNames |-> refusalOf(n)])
        /\ (ret.err = NoErr) <=> answersGiveNoError

\* C36 witness: a PromQL call returned whose two goroutines reported, one a
\* result after two fetches, the other an error.
C36_Witness ==
    /\ returned /\ onProm
    /\ startedUnits = {"A", "B"}
    /\ \E n \in Names : failedCalls(n) # {}
    /\ \E n \in Names : failedCalls(n) = {} /\ Len(queriesExecuted[n]) = 2
    /\ Len(ret.results) = 1

\* C37: QueryRange called with a request that has no composite query returns
\* normally, with no results and a nil error: the value-panel check is not
\* evaluated on the absent composite query.
C37_NoCompositeReturnsNormally ==
    (pc # "idle" /\ ~hasCompositeQuery(params)) =>
        /\ returned
        /\ ret.results = << >>
        /\ ret.err = NoErr

\* C38: findMissingTimeRanges returns a result for every step >= 0: with
\* cached series and a step of zero, computing roundedNow does not fault
\* with a division by zero.
C38_EveryStepReturns == rcIn.step >= 0 => ~rcOut.panicked

\* C39: mergeSerieses leaves its inputs unchanged: after the call every
\* series object passed in cachedSeries or missedSeries has the point
\* sequence it had before the call.
C39_MergeLeavesInputs ==
    mgOut.done =>
        /\ mgOut.cachedSeries = mgIn.cachedSeries
        /\ mgOut.missedSeries = mgIn.missedSeries

\* The timestamp lies in the window of the direct filterCachedPoints call.
fcInWindow(point) == fcIn.start <= point.Timestamp /\ point.Timestamp <= fcIn.end

fcKept(point) == fcInWindow(point) \/ point.Timestamp = 0

====
